---- MODULE Spec2Model ----
(***************************************************************************)
(* Sorcherer: HTML overlays bound to Three.js Object3D nodes.              *)
(* A state-machine model of the overlay registry (live set, id map, object *)
(* registry, 'removed' listeners), of the template attached to an overlay, *)
(* of the culling pass and of the auto-update scheduler, as built into     *)
(* dist/index.cjs from src/sorcherer.js.                                   *)
(***************************************************************************)
EXTENDS Integers, Sequences, FiniteSets, TLC

(***************************************************************************)
(* Bounds of the model.                                                    *)
(***************************************************************************)
\* Scene nodes (Object3D) the host application owns.
NumNodes == 2
\* Overlay instances ever constructed in one behaviour.
MaxInst == 2
\* Elements with an idm attribute in one <realm> scan.
MaxElems == 2

\* Loop callbacks pending with the display-sync driver at once.
MaxPending == 2
\* The largest timestamp the display-sync driver delivers.
MaxTime == 3

\* The value of a missing reference (null / undefined / absent key).
Null == 0
Nodes == 1..NumNodes
\* Object3D.name values; "" is the unnamed node.
Names == {"a", "b"}
NoName == ""

(***************************************************************************)
(* Text. A string is a sequence of characters.                             *)
(***************************************************************************)
\* [a-zA-Z0-9_]
NameChars == {"a", "b", "c", "1", "2", "9", "e", "f", "j", "l", "m", "o", "p", "t", "u",
              "v", "O"}
Dollar == "$"
Equals == "="
\* Characters the model's templates are written in ("<" stands for markup).
Chars == NameChars \cup {Dollar, Equals, "<"}

\* The placeholder name that is also the name of the instance field the
\* template is kept in.
TemplateName == <<"t", "e", "m", "p", "l", "a", "t", "e">>
\* The placeholder name that is also the name of the instance field the
\* target node is kept in.
ObjectName == <<"o", "b", "j", "e", "c", "t">>
\* A placeholder name that every plain object inherits a property for.
ValueOfName == <<"v", "a", "l", "u", "e", "O", "f">>
\* The names Object.prototype gives the object {} (those the model's
\* templates use).
ProtoKeys == {ValueOfName}
\* The value undefined, and the text of the function Object.prototype holds
\* under an inherited name; each is one symbol no template contains.
Undefined == <<"undefined">>
\* The value null, which String.replace inserts as the text null.
NullValue == <<"null">>
NativeCode == <<"function valueOf() { [native code] }">>

IsNameChar(c) == c \in NameChars
IsDefaultChar(c) == c # Dollar

\* [a-zA-Z0-9_]+ is greedy: the end (exclusive) of the longest run of name
\* characters that starts at index i of s.
NameEnd(s, i) ==
  CHOOSE k \in i..(Len(s) + 1) :
    /\ \A m \in i..(k - 1) : IsNameChar(s[m])
    /\ (k = Len(s) + 1 \/ ~IsNameChar(s[k]))

\* [^$]+ is greedy: the end (exclusive) of the longest run of characters
\* other than $ that starts at index i of s.
DefaultEnd(s, i) ==
  CHOOSE k \in i..(Len(s) + 1) :
    /\ \A m \in i..(k - 1) : IsDefaultChar(s[m])
    /\ (k = Len(s) + 1 \/ ~IsDefaultChar(s[k]))

NoMatch == [matched |-> FALSE, next |-> 0, varName |-> <<>>,
            hasDefault |-> FALSE, defaultVal |-> <<>>]

\* One attempt of /\$([a-zA-Z0-9_]+)(?:=([^$]+))?\$/ at index i of s.
MatchAt(s, i) ==
  IF i > Len(s) \/ s[i] # Dollar THEN NoMatch
  ELSE
    LET j == NameEnd(s, i + 1) IN
    IF j = i + 1 \/ j > Len(s) THEN NoMatch
    ELSE IF s[j] = Dollar
      THEN [matched |-> TRUE, next |-> j + 1, varName |-> SubSeq(s, i + 1, j - 1),
            hasDefault |-> FALSE, defaultVal |-> <<>>]
    ELSE IF s[j] = Equals
      THEN
        LET k == DefaultEnd(s, j + 1) IN
        IF k = j + 1 \/ k > Len(s) THEN NoMatch
        ELSE [matched |-> TRUE, next |-> k + 1, varName |-> SubSeq(s, i + 1, j - 1),
              hasDefault |-> TRUE, defaultVal |-> SubSeq(s, j + 1, k - 1)]
    ELSE NoMatch

\* The matches of the global regular expression in s from index i on, left
\* to right and not overlapping: the calls String.replace makes.
RECURSIVE Matches(_, _)
Matches(s, i) ==
  IF i > Len(s) THEN <<>>
  ELSE
    LET m == MatchAt(s, i) IN
    IF m.matched THEN <<m>> \o Matches(s, m.next) ELSE Matches(s, i + 1)

\* The empty object {}.
EmptyVars == [n \in {} |-> <<>>]

\* key in obj, for a plain object: own and inherited properties.
HasKey(obj, key) == key \in DOMAIN obj \/ key \in ProtoKeys

\* obj[key] for a plain object: the own property, else the inherited one,
\* else undefined.
Get(obj, key) ==
  IF key \in DOMAIN obj THEN obj[key]
  ELSE IF key \in ProtoKeys THEN NativeCode
  ELSE Undefined

\* String.replace(regex, fn) where fn returns the variable's value, or ''.
RECURSIVE ReplaceFrom(_, _, _)
ReplaceFrom(s, i, vars) ==
  IF i > Len(s) THEN <<>>
  ELSE
    LET m == MatchAt(s, i) IN
    IF m.matched
      THEN (IF Get(vars, m.varName) # Undefined THEN Get(vars, m.varName) ELSE <<>>)
             \o ReplaceFrom(s, m.next, vars)
      ELSE <<s[i]>> \o ReplaceFrom(s, i + 1, vars)

\* obj[key] = value on a plain object.
SetKey(f, key, value) ==
  [n \in (DOMAIN f) \cup {key} |-> IF n = key THEN value ELSE f[n]]

\* A numeric argument: a number, NaN, +Infinity, -Infinity or omitted.
Num(v) == [kind |-> "num", v |-> v]
NotNum(kind) == [kind |-> kind, v |-> 0]

(***************************************************************************)
(* State.                                                                  *)
(***************************************************************************)
VARIABLES
  \* typeof document !== 'undefined' (and so Sorcherer.container non-null)
  hasDocument,
  \* Object3D.name of each node
  nodeName,
  \* the overlay instances whose listener is registered for 'removed' on a node
  nodeListeners,
  \* Sorcherer.objectRegistry: name -> node (Null: no such key)
  objectRegistry,
  \* Sorcherer.allLoadedElements, in insertion order
  allLoadedElements,
  \* Sorcherer.instancesById: name -> instance (Null: no such key)
  instancesById,
  \* per instance (index = order of construction)
  object,           \* this.object
  disposed,         \* this._disposed
  removedListener,  \* this._removedListener !== null
  parentElement,    \* this._parentSpan.parentElement !== null
  display,          \* this._parentSpan.style.display
  template,         \* this.template
  dynamicVars,      \* this.dynamicVars
  dynamicVarNames,  \* this._dynamicVarNames
  innerHTML,        \* this._parentSpan.innerHTML
  templateDeleted,  \* the own property 'template' has been deleted
  transform,        \* this._parentSpan.style.transform
  zIndex,           \* this._parentSpan.style.zIndex
  offset,           \* this.offset
  simulate3D,       \* this.simulate3D
  simulateRotation, \* this.simulateRotation
  autoCenter,       \* this.autoCenter
  scaleMultiplier,  \* this.scaleMultiplier
  \* Sorcherer.defaultScaleMultiplier
  defaultScaleMultiplier,
  \* scene and viewport, as the host application and three.js give them
  nodeVisible,      \* Object3D.visible
  nodeInFrustum,    \* frustum.containsPoint(world position of the node)
  nodeMalformed,    \* typeof object.getWorldPosition !== 'function'
  nodeNdc,          \* the node's world position projected by the camera
  nodeDist,         \* camera.position.distanceTo(world position of the node)
  nodeRotation,     \* object.rotation.z, in quarter turns
  \* what the host application's code does when a scheduled pass calls into
  \* it (a node's getWorldPosition or visible): "none", "stop", "restart"
  passHook,
  viewport,         \* renderer.domElement.clientWidth, clientHeight
  \* scheduler
  useRaf,           \* typeof requestAnimationFrame === 'function'
  autoUpdateRunning,\* Sorcherer.autoUpdateRunning
  timeoutHandle,    \* Sorcherer._timeoutHandle (Null, or a timer id)
  rafQueue,         \* loop closures requested for the next frame, in order
  timers,           \* pending timers: [id, loop], loop a closure
  clock,            \* timestamp of the last frame delivered (-1: none yet)
  \* per instance, the text given to its last attach() call (history)
  attached,
  \* the timestamp of the last pass a display-sync loop executed, and whether
  \* it came at least that loop's interval after the pass before (history)
  passLog,
  \* the last operation called and its arguments (history)
  lastCall

vars == <<hasDocument, nodeName, nodeListeners, objectRegistry, allLoadedElements,
          instancesById, object, disposed, removedListener, parentElement, display,
          template, dynamicVars, dynamicVarNames, innerHTML, templateDeleted,
          transform, zIndex,
          offset, simulate3D, simulateRotation, autoCenter, scaleMultiplier,
          defaultScaleMultiplier,
          nodeVisible, nodeInFrustum, nodeMalformed, nodeNdc, nodeDist, nodeRotation,
          passHook, viewport,
          useRaf, autoUpdateRunning, timeoutHandle, rafQueue, timers, clock,
          attached, passLog, lastCall>>

\* The program state as one value, so that a handler is a function on it.
State ==
  [hasDocument |-> hasDocument, nodeName |-> nodeName, nodeListeners |-> nodeListeners,
   objectRegistry |-> objectRegistry, allLoadedElements |-> allLoadedElements,
   instancesById |-> instancesById, object |-> object, disposed |-> disposed,
   removedListener |-> removedListener, parentElement |-> parentElement,
   display |-> display, template |-> template, dynamicVars |-> dynamicVars,
   dynamicVarNames |-> dynamicVarNames, innerHTML |-> innerHTML,
   templateDeleted |-> templateDeleted, transform |-> transform, zIndex |-> zIndex,
   nodeVisible |-> nodeVisible, nodeInFrustum |-> nodeInFrustum,
   nodeMalformed |-> nodeMalformed, nodeNdc |-> nodeNdc, nodeDist |-> nodeDist,
   viewport |-> viewport,
   offset |-> offset, simulate3D |-> simulate3D, simulateRotation |-> simulateRotation,
   autoCenter |-> autoCenter, scaleMultiplier |-> scaleMultiplier,
   defaultScaleMultiplier |-> defaultScaleMultiplier,
   nodeRotation |-> nodeRotation, passHook |-> passHook,
   useRaf |-> useRaf, autoUpdateRunning |-> autoUpdateRunning,
   timeoutHandle |-> timeoutHandle, rafQueue |-> rafQueue,
   timers |-> timers, clock |-> clock, attached |-> attached, passLog |-> passLog,
   \* passes the scheduler has executed in the current call
   ran |-> 0,
   \* the current call has raised an exception that nothing caught
   threw |-> FALSE,
   \* the markup elements the current scan has left in the document
   kept |-> {}, visited |-> <<>>]

Commit(S) ==
  /\ hasDocument' = S.hasDocument
  /\ nodeName' = S.nodeName
  /\ nodeListeners' = S.nodeListeners
  /\ objectRegistry' = S.objectRegistry
  /\ allLoadedElements' = S.allLoadedElements
  /\ instancesById' = S.instancesById
  /\ object' = S.object
  /\ disposed' = S.disposed
  /\ removedListener' = S.removedListener
  /\ parentElement' = S.parentElement
  /\ display' = S.display
  /\ template' = S.template
  /\ dynamicVars' = S.dynamicVars
  /\ dynamicVarNames' = S.dynamicVarNames
  /\ innerHTML' = S.innerHTML
  /\ templateDeleted' = S.templateDeleted
  /\ transform' = S.transform
  /\ zIndex' = S.zIndex
  /\ offset' = S.offset
  /\ simulate3D' = S.simulate3D
  /\ simulateRotation' = S.simulateRotation
  /\ autoCenter' = S.autoCenter
  /\ scaleMultiplier' = S.scaleMultiplier
  /\ defaultScaleMultiplier' = S.defaultScaleMultiplier
  /\ nodeRotation' = S.nodeRotation
  /\ passHook' = S.passHook
  /\ nodeVisible' = S.nodeVisible
  /\ nodeInFrustum' = S.nodeInFrustum
  /\ nodeMalformed' = S.nodeMalformed
  /\ nodeNdc' = S.nodeNdc
  /\ nodeDist' = S.nodeDist
  /\ viewport' = S.viewport
  /\ useRaf' = S.useRaf
  /\ autoUpdateRunning' = S.autoUpdateRunning
  /\ timeoutHandle' = S.timeoutHandle
  /\ rafQueue' = S.rafQueue
  /\ timers' = S.timers
  /\ clock' = S.clock
  /\ attached' = S.attached
  /\ passLog' = S.passLog

Instances == 1..Len(object)
Range(s) == {s[k] : k \in 1..Len(s)}
Remove(s, x) == SelectSeq(s, LAMBDA y : y # x)

\* new Vector3()
ZeroOffset == <<0, 0, 0>>

\* The arguments after the node when the caller gives none: offset = new
\* Vector3(), the three flags false, scaleMultiplier undefined.
DefaultOpts ==
  [offset |-> ZeroOffset, simulate3D |-> FALSE, simulateRotation |-> FALSE,
   autoCenter |-> FALSE, scaleMultiplier |-> NotNum("undefined")]

\* A call as history: the operation, the instance it was called on (inst),
\* the node and name passed, the target of a delivered event, the idm
\* attributes a scan met, the instances the call constructed, the holder of
\* the name before the call (prev), whether inst was already disposed,
\* whether the update loop was running when the call was made, the passes
\* the scheduler executed during the call, the callbacks a frame delivered,
\* whether the call raised, the variable name, value and template text
\* passed, the markup elements a scan left in the document, and the
\* arguments a constructor call had after the node, and the names
\* objectRegistry had an entry for before the call, and the renderer passed.
NoCall ==
  [op |-> "init", inst |-> Null, node |-> Null, name |-> NoName, target |-> Null,
   idms |-> {}, created |-> {}, prev |-> Null, onDisposed |-> FALSE,
   wasRunning |-> FALSE, ranPass |-> 0, delivered |-> 0, threw |-> FALSE,
   varName |-> <<>>, value |-> <<>>, tpl |-> <<>>, kept |-> {}, opts |-> DefaultOpts,
   before |-> {}, renderer |-> Null, wasRotated |-> FALSE,
   visited |-> <<>>]

\* The name each node has when the host application hands it over.
InitialName(n) == IF n = 1 THEN "a" ELSE NoName

\* No pass logged yet.
NoPasses == [last |-> -1, spaced |-> TRUE]

\* Where a node is for the camera: whether the frustum contains its world
\* position, that position projected to normalised device coordinates, and
\* its distance from the camera.
Centre == [inFrustum |-> TRUE, ndc |-> [x |-> 0, y |-> 0], dist |-> 5]

\* The state once the module is loaded, for the node names given: empty
\* registries, no instance, no loop; every node visible and in view.
LoadedState(names, raf) ==
  [hasDocument |-> TRUE,
   nodeName |-> names,
   nodeListeners |-> [n \in Nodes |-> {}],
   objectRegistry |-> [k \in Names |-> Null],
   allLoadedElements |-> <<>>,
   instancesById |-> [k \in Names |-> Null],
   object |-> <<>>,
   disposed |-> <<>>,
   removedListener |-> <<>>,
   parentElement |-> <<>>,
   display |-> <<>>,
   template |-> <<>>,
   dynamicVars |-> <<>>,
   dynamicVarNames |-> <<>>,
   innerHTML |-> <<>>,
   templateDeleted |-> <<>>,
   transform |-> <<>>,
   zIndex |-> <<>>,
   offset |-> <<>>,
   simulate3D |-> <<>>,
   simulateRotation |-> <<>>,
   autoCenter |-> <<>>,
   scaleMultiplier |-> <<>>,
   defaultScaleMultiplier |-> 1,
   nodeRotation |-> [n \in Nodes |-> 0],
   passHook |-> "none",
   nodeVisible |-> [n \in Nodes |-> TRUE],
   nodeInFrustum |-> [n \in Nodes |-> TRUE],
   nodeMalformed |-> [n \in Nodes |-> FALSE],
   nodeNdc |-> [n \in Nodes |-> Centre.ndc],
   nodeDist |-> [n \in Nodes |-> Centre.dist],
   viewport |-> [w |-> 800, h |-> 600],
   useRaf |-> raf,
   autoUpdateRunning |-> FALSE,
   timeoutHandle |-> Null,
   rafQueue |-> <<>>,
   timers |-> {},
   clock |-> -1,
   attached |-> <<>>,
   passLog |-> NoPasses,
   ran |-> 0, threw |-> FALSE, kept |-> {}, visited |-> <<>>]

\* The variables hold the program state S.
Started(S) ==
  /\ hasDocument = S.hasDocument
  /\ nodeName = S.nodeName
  /\ nodeListeners = S.nodeListeners
  /\ objectRegistry = S.objectRegistry
  /\ allLoadedElements = S.allLoadedElements
  /\ instancesById = S.instancesById
  /\ object = S.object
  /\ disposed = S.disposed
  /\ removedListener = S.removedListener
  /\ parentElement = S.parentElement
  /\ display = S.display
  /\ template = S.template
  /\ dynamicVars = S.dynamicVars
  /\ dynamicVarNames = S.dynamicVarNames
  /\ innerHTML = S.innerHTML
  /\ templateDeleted = S.templateDeleted
  /\ transform = S.transform
  /\ zIndex = S.zIndex
  /\ offset = S.offset
  /\ simulate3D = S.simulate3D
  /\ simulateRotation = S.simulateRotation
  /\ autoCenter = S.autoCenter
  /\ scaleMultiplier = S.scaleMultiplier
  /\ defaultScaleMultiplier = S.defaultScaleMultiplier
  /\ nodeRotation = S.nodeRotation
  /\ passHook = S.passHook
  /\ nodeVisible = S.nodeVisible
  /\ nodeInFrustum = S.nodeInFrustum
  /\ nodeMalformed = S.nodeMalformed
  /\ nodeNdc = S.nodeNdc
  /\ nodeDist = S.nodeDist
  /\ viewport = S.viewport
  /\ useRaf = S.useRaf
  /\ autoUpdateRunning = S.autoUpdateRunning
  /\ timeoutHandle = S.timeoutHandle
  /\ rafQueue = S.rafQueue
  /\ timers = S.timers
  /\ clock = S.clock
  /\ attached = S.attached
  /\ passLog = S.passLog

Loaded(names, raf) == Started(LoadedState(names, raf)) /\ lastCall = NoCall

Init == Loaded([n \in Nodes |-> InitialName(n)], TRUE)

(***************************************************************************)
(* Overlay instance: constructor, template, disposal.                      *)
(***************************************************************************)
\* A style property that has not been set: ''.
NoStyle == <<>>

\* new Sorcherer(obj, offset, simulate3D, simulateRotation, autoCenter,
\* scaleMultiplier), the arguments after obj in opts: the new instance is
\* number Len(S.object) + 1.
constructor(S, obj, opts) ==
  LET i == Len(S.object) + 1 IN
  [S EXCEPT
     !.object = Append(@, obj),
     !.offset = Append(@, opts.offset),
     !.simulate3D = Append(@, opts.simulate3D),
     !.simulateRotation = Append(@, opts.simulateRotation),
     !.autoCenter = Append(@, opts.autoCenter),
     !.scaleMultiplier = Append(@, IF opts.scaleMultiplier.kind # "undefined"
                                     THEN opts.scaleMultiplier.v
                                     ELSE S.defaultScaleMultiplier),
     !.template = Append(@, <<>>),
     !.dynamicVars = Append(@, EmptyVars),
     !.dynamicVarNames = Append(@, {}),
     !.disposed = Append(@, FALSE),
     !.innerHTML = Append(@, <<>>),
     !.templateDeleted = Append(@, FALSE),
     !.attached = Append(@, <<>>),
     !.transform = Append(@, NoStyle),
     !.zIndex = Append(@, NoStyle),
     !.display = Append(@, IF S.hasDocument THEN "none" ELSE ""),
     !.parentElement = Append(@, S.hasDocument),
     !.allLoadedElements = IF S.hasDocument THEN Append(@, i) ELSE @,
     !.removedListener = Append(@, obj # Null),
     !.nodeListeners = IF obj # Null THEN [@ EXCEPT ![obj] = @ \cup {i}] ELSE @]

\* getDynamicVar(varName)
getDynamicVar(S, i, varName) == Get(S.dynamicVars[i], varName)

\* The value of this.template: through the accessor when the current
\* template declares a variable of that name, undefined when the property
\* has been deleted, else the field.
readTemplate(S, i) ==
  IF TemplateName \in S.dynamicVarNames[i] THEN getDynamicVar(S, i, TemplateName)
  ELSE IF S.templateDeleted[i] THEN Undefined
  ELSE S.template[i]

\* renderDynamicVars(): this.template.replace raises when this.template is
\* undefined.
renderDynamicVars(S, i) ==
  IF S.threw THEN S
  ELSE
    LET t == readTemplate(S, i) IN
    IF t = Undefined THEN [S EXCEPT !.threw = TRUE]
    ELSE [S EXCEPT !.innerHTML[i] = ReplaceFrom(t, 1, S.dynamicVars[i])]

\* setDynamicVar that ignores a name without an accessor.
setDynamicVar_declaredOnly(S, i, varName, value) ==
  IF varName \in S.dynamicVarNames[i]
  THEN renderDynamicVars([S EXCEPT !.dynamicVars[i] = SetKey(@, varName, value)], i)
  ELSE S

\* setDynamicVar(varName, value)
setDynamicVar(S, i, varName, value) ==
  renderDynamicVars([S EXCEPT !.dynamicVars[i] = SetKey(@, varName, value)], i)

\* this.template = value: through the accessor's setter when there is one.
writeTemplate(S, i, value) ==
  IF TemplateName \in S.dynamicVarNames[i] THEN setDynamicVar(S, i, TemplateName, value)
  ELSE [S EXCEPT !.template[i] = value, !.templateDeleted[i] = FALSE]

\* _clearDynamicVarProperties(): delete this[varName] for every accessor.
clearDynamicVarProperties(S, i) ==
  [S EXCEPT
     !.templateDeleted[i] = @ \/ TemplateName \in S.dynamicVarNames[i],
     !.dynamicVarNames[i] = {}]

\* _defineDynamicVarAccessor(varName): Object.defineProperty replaces a
\* field of the same name by the accessor. For the name object, this.object
\* then reads dynamicVars.object, the text of a placeholder's default and
\* no node (the model's templates give that placeholder no default, so the
\* value is the empty string, which is falsy as null is); the node the
\* field held is lost, also when the accessor is deleted again.
defineDynamicVarAccessor(S, i, varName) ==
  IF varName \in S.dynamicVarNames[i] THEN S
  ELSE [S EXCEPT
          !.dynamicVarNames[i] = @ \cup {varName},
          !.template[i] = IF varName = TemplateName THEN <<>> ELSE @,
          !.templateDeleted[i] = IF varName = TemplateName THEN FALSE ELSE @,
          !.object[i] = IF varName = ObjectName THEN Null ELSE @]

\* The callback attach() hands to String.replace, called for the matches
\* ms[k..]: the first occurrence of a name sets its value.
RECURSIVE CollectVars(_, _, _, _)
CollectVars(S, i, ms, k) ==
  IF k > Len(ms) THEN S
  ELSE
    LET m == ms[k]
        S1 == IF HasKey(S.dynamicVars[i], m.varName) THEN S
              ELSE [S EXCEPT !.dynamicVars[i] =
                      SetKey(@, m.varName, IF m.hasDefault THEN m.defaultVal ELSE <<>>)]
    IN CollectVars(defineDynamicVarAccessor(S1, i, m.varName), i, ms, k + 1)

\* attach(innerHTML)
attach(S, i, tpl) ==
  LET S1 == writeTemplate([S EXCEPT !.attached[i] = tpl], i, tpl)
      S2 == clearDynamicVarProperties([S1 EXCEPT !.dynamicVars[i] = EmptyVars], i)
      t == readTemplate(S2, i)
  IN
  IF S1.threw THEN S1
  ELSE IF t = Undefined THEN [S2 EXCEPT !.threw = TRUE]
  ELSE
    LET S3 == renderDynamicVars(CollectVars(S2, i, Matches(t, 1), 1), i) IN
    IF S3.threw THEN S3 ELSE [S3 EXCEPT !.display[i] = "block"]

\* dispose() as it was before the _disposed flag: no early return, the
\* target reference kept, the name's entry deleted whoever holds it.
dispose_v1(S, i) ==
  LET obj == S.object[i]
      name == IF obj # Null THEN S.nodeName[obj] ELSE NoName
  IN
  [S EXCEPT
     !.disposed[i] = TRUE,
     !.parentElement[i] = FALSE,
     !.allLoadedElements = Remove(@, i),
     !.instancesById = IF obj # Null /\ name # NoName /\ S.instancesById[name] # Null
                         THEN [@ EXCEPT ![name] = Null] ELSE @]

\* dispose() without Sorcherer.allLoadedElements.delete(this).
dispose_keepsLive(S, i) ==
  IF S.disposed[i] THEN S
  ELSE
    LET obj == S.object[i]
        name == IF obj # Null THEN S.nodeName[obj] ELSE NoName
    IN
    [S EXCEPT
       !.disposed[i] = TRUE,
       !.nodeListeners = IF obj # Null /\ S.removedListener[i]
                           THEN [@ EXCEPT ![obj] = @ \ {i}] ELSE @,
       !.parentElement[i] = FALSE,
       !.instancesById = IF obj # Null /\ name # NoName /\ S.instancesById[name] = i
                           THEN [@ EXCEPT ![name] = Null] ELSE @,
       !.removedListener[i] = FALSE,
       !.object[i] = Null]

\* dispose() that deletes the entry of the node's name without looking at
\* who holds it.
dispose_deletesName(S, i) ==
  IF S.disposed[i] THEN S
  ELSE
    LET obj == S.object[i]
        name == IF obj # Null THEN S.nodeName[obj] ELSE NoName
        S1 == [S EXCEPT
                 !.disposed[i] = TRUE,
                 !.nodeListeners = IF obj # Null /\ S.removedListener[i]
                                     THEN [@ EXCEPT ![obj] = @ \ {i}] ELSE @,
                 !.parentElement[i] = FALSE,
                 !.allLoadedElements = Remove(@, i),
                 !.instancesById = IF obj # Null /\ name # NoName
                                     THEN [@ EXCEPT ![name] = Null] ELSE @,
                 !.removedListener[i] = FALSE,
                 !.object[i] = Null]
    IN IF ObjectName \in S.dynamicVarNames[i]
         THEN setDynamicVar(S1, i, ObjectName, NullValue)
         ELSE S1

\* dispose(); its last statement, this.object = null, goes through the
\* setter when the name object has an accessor.
dispose(S, i) ==
  IF S.disposed[i] THEN S
  ELSE
    LET obj == S.object[i]
        name == IF obj # Null THEN S.nodeName[obj] ELSE NoName
        S1 == [S EXCEPT
                 !.disposed[i] = TRUE,
                 !.nodeListeners = IF obj # Null /\ S.removedListener[i]
                                     THEN [@ EXCEPT ![obj] = @ \ {i}] ELSE @,
                 !.parentElement[i] = FALSE,
                 !.allLoadedElements = Remove(@, i),
                 !.instancesById = IF obj # Null /\ name # NoName /\ S.instancesById[name] = i
                                     THEN [@ EXCEPT ![name] = Null] ELSE @,
                 !.removedListener[i] = FALSE,
                 !.object[i] = Null]
    IN IF ObjectName \in S.dynamicVarNames[i]
         THEN setDynamicVar(S1, i, ObjectName, NullValue)
         ELSE S1

\* The listener the constructor registers: (event) => { if (event?.target
\* === this.object) this.dispose(); }
onRemoved(S, i, target) ==
  IF target # Null /\ target = S.object[i] THEN dispose(S, i) ELSE S

\* Object3D.dispatchEvent({ type: 'removed' }) on node n, delivered with
\* event.target = target to a copy of the listeners registered at dispatch
\* time, in the order they were registered.
RECURSIVE DeliverRemoved(_, _, _, _)
DeliverRemoved(S, listeners, k, target) ==
  IF k > Len(S.object) THEN S
  ELSE DeliverRemoved(IF k \in listeners THEN onRemoved(S, k, target) ELSE S,
                      listeners, k + 1, target)

dispatchRemoved(S, n, target) == DeliverRemoved(S, S.nodeListeners[n], 1, target)

(***************************************************************************)
(* Registries.                                                             *)
(***************************************************************************)
\* Sorcherer.registerObject3D(object)
registerObject3D(S, obj) ==
  IF obj # Null /\ S.nodeName[obj] # NoName
    THEN [S EXCEPT !.objectRegistry[S.nodeName[obj]] = obj]
    ELSE S

\* The loop body as it was before it disposed the previous holder.
attachElement_keepsPrevious(S, el) ==
  IF el.idm = NoName THEN [S EXCEPT !.kept = @ \cup {el}]
  ELSE
    LET obj == S.objectRegistry[el.idm] IN
    IF obj = Null THEN [S EXCEPT !.kept = @ \cup {el}]
    ELSE
      LET name == S.nodeName[obj]
          i == Len(S.object) + 1
          S2 == attach(constructor(S, obj, DefaultOpts), i, el.html)
      IN IF name # NoName THEN [S2 EXCEPT !.instancesById[name] = i] ELSE S2

\* The body of attachFromRealm's loop for one element with an idm attribute
\* (el.idm) and content el.html; the elements of the model carry no other
\* attribute, so the flags read are false, the offset is new Vector3() and
\* the scale multiplier undefined.
attachElement(S, el) ==
  IF el.idm = NoName THEN [S EXCEPT !.kept = @ \cup {el}]
  ELSE
    LET obj == S.objectRegistry[el.idm] IN
    IF obj = Null THEN [S EXCEPT !.kept = @ \cup {el}]
    ELSE
      LET name == S.nodeName[obj]
          S1 == IF name # NoName /\ S.instancesById[name] # Null
                  THEN dispose(S, S.instancesById[name]) ELSE S
          i == Len(S1.object) + 1
          S2 == attach(constructor(S1, obj, DefaultOpts), i, el.html)
      IN IF name # NoName THEN [S2 EXCEPT !.instancesById[name] = i] ELSE S2

\* A scan that ends at the first element whose idm names no registered node.
RECURSIVE ScanElements_stopsAtMissing(_, _, _)
ScanElements_stopsAtMissing(S, els, k) ==
  IF k > Len(els) THEN S
  ELSE IF els[k].idm # NoName /\ S.objectRegistry[els[k].idm] = Null
    THEN [S EXCEPT !.kept = @ \cup {els[j] : j \in k..Len(els)}]
  ELSE ScanElements_stopsAtMissing(attachElement(S, els[k]), els, k + 1)

\* Sorcherer.attachFromRealm(root): els are the [idm] elements found, in
\* document order.
RECURSIVE ScanElements(_, _, _)
ScanElements(S, els, k) ==
  IF k > Len(els) THEN S ELSE ScanElements(attachElement(S, els[k]), els, k + 1)

attachFromRealm(S, els) ==
  IF ~S.hasDocument THEN [S EXCEPT !.kept = Range(els)] ELSE ScanElements(S, els, 1)

\* clone.setDynamicVar(key, value) for the entries keys[k..] of the source.
RECURSIVE CopyVars(_, _, _, _)
CopyVars(S, c, src, keys) ==
  IF keys = {} THEN S
  ELSE
    LET key == CHOOSE x \in keys : TRUE IN
    CopyVars(setDynamicVar(S, c, key, src[key]), c, src, keys \ {key})

\* The arguments attachClone constructs the clone with: a clone of the
\* source's offset, its flags and its scale multiplier.
cloneOpts(S, i) ==
  [offset |-> S.offset[i], simulate3D |-> S.simulate3D[i],
   simulateRotation |-> S.simulateRotation[i], autoCenter |-> S.autoCenter[i],
   scaleMultiplier |-> Num(S.scaleMultiplier[i])]

\* attachClone that renames the target and forgets to store the clone.
attachClone_noRegister(S, i, target, newName) ==
  LET c == Len(S.object) + 1
      tpl == readTemplate(S, i)
      S1 == attach(constructor(S, target, cloneOpts(S, i)), c,
                   IF tpl = Undefined THEN <<>> ELSE tpl)
      S2 == CopyVars(S1, c, S.dynamicVars[i], DOMAIN S.dynamicVars[i])
  IN
  IF newName = NoName THEN S2
  ELSE IF target = Null THEN [S2 EXCEPT !.threw = TRUE]
  ELSE [S2 EXCEPT !.nodeName[target] = newName]

\* attachClone(targetObject, newName) called on instance i. With a null
\* target and a newName the assignment targetObject.name = newName raises
\* after the clone has been built.
attachClone(S, i, target, newName) ==
  LET c == Len(S.object) + 1
      tpl == readTemplate(S, i)
      S1 == attach(constructor(S, target, cloneOpts(S, i)), c,
                   IF tpl = Undefined THEN <<>> ELSE tpl)
      S2 == CopyVars(S1, c, S.dynamicVars[i], DOMAIN S.dynamicVars[i])
  IN
  IF newName = NoName THEN S2
  ELSE IF target = Null THEN [S2 EXCEPT !.threw = TRUE]
  ELSE [S2 EXCEPT !.nodeName[target] = newName, !.instancesById[newName] = c]

(***************************************************************************)
(* Actions of the registry.                                                *)
(***************************************************************************)
\* Templates the model's markup and callers use.
Templates == {<<Dollar, "a", Equals, "1", Dollar>>}

Construct(obj) ==
  /\ Len(object) < MaxInst
  /\ Commit(constructor(State, obj, DefaultOpts))
  /\ lastCall' = [NoCall EXCEPT !.op = "new", !.node = obj, !.created = {Len(object) + 1}]

Attach(i, tpl) ==
  /\ LET S == attach(State, i, tpl) IN
     /\ Commit(S)
     /\ lastCall' = [NoCall EXCEPT !.op = "attach", !.inst = i, !.tpl = tpl,
                                   !.onDisposed = disposed[i], !.threw = S.threw]

Dispose(i) ==
  /\ Commit(dispose(State, i))
  /\ lastCall' = [NoCall EXCEPT !.op = "dispose", !.inst = i, !.node = object[i],
                                 !.onDisposed = disposed[i]]

DispatchRemoved(n, target) ==
  /\ Commit(dispatchRemoved(State, n, target))
  /\ lastCall' = [NoCall EXCEPT !.op = "removed", !.node = n, !.target = target]

RegisterObject3D(obj) ==
  /\ Commit(registerObject3D(State, obj))
  /\ lastCall' = [NoCall EXCEPT !.op = "registerObject3D", !.node = obj]

\* The instances a scan of els would construct.
RECURSIVE Creates(_, _)
Creates(els, k) ==
  IF k > Len(els) THEN 0
  ELSE (IF els[k].idm # NoName /\ objectRegistry[els[k].idm] # Null THEN 1 ELSE 0)
         + Creates(els, k + 1)

Elements == [idm : Names \cup {NoName}, html : Templates]

AttachFromRealm(els) ==
  /\ Len(object) + Creates(els, 1) <= MaxInst
  /\ LET S == attachFromRealm(State, els) IN
     /\ Commit(S)
     /\ lastCall' = [NoCall EXCEPT !.op = "attachFromRealm",
                                   !.idms = {els[k].idm : k \in 1..Len(els)},
                                   !.created = (Len(object) + 1)..Len(S.object),
                                   !.threw = S.threw, !.kept = S.kept]

AttachClone(i, target, newName) ==
  /\ Len(object) < MaxInst
  /\ LET S == attachClone(State, i, target, newName) IN
     /\ Commit(S)
     /\ lastCall' = [NoCall EXCEPT !.op = "attachClone", !.inst = i, !.node = target,
                                   !.name = newName, !.created = {Len(object) + 1},
                                   !.prev = IF newName # NoName THEN instancesById[newName]
                                            ELSE Null,
                                   !.onDisposed = disposed[i], !.threw = S.threw]

ElementLists == UNION {[1..n -> Elements] : n \in 1..MaxElems}

Next ==
  \/ \E obj \in Nodes \cup {Null} : Construct(obj)
  \/ \E i \in Instances : Dispose(i)
  \/ \E n \in Nodes, target \in Nodes : DispatchRemoved(n, target)
  \/ \E obj \in Nodes : RegisterObject3D(obj)
  \/ \E els \in ElementLists : AttachFromRealm(els)
  \/ \E i \in Instances, target \in Nodes \cup {Null}, newName \in Names \cup {NoName} :
       AttachClone(i, target, newName)

Spec == Init /\ [][Next]_vars

(***************************************************************************)
(* The culling pass.                                                       *)
(***************************************************************************)
\* Sorcherer._hideOverlay(instance)
hideOverlay(S, i) == [S EXCEPT !.display[i] = "none"]

\* The z-index rounded down instead of to the nearest integer.
zIndexOf_truncates(d) == IF d <= 0 THEN 10000000 ELSE 1000 \div d

\* Math.round(1000 / distance) with a distance that is not positive
\* replaced by 0.0001; Math.round rounds a half up.
zIndexOf(d) == IF d <= 0 THEN 10000000 ELSE (2000 + d) \div (2 * d)

\* The pixel mapping without the flip of the vertical axis.
translateOf_noFlip(ndc, vp) ==
  <<"translate", (vp.w * (ndc.x + 1)) \div 2, (vp.h * (ndc.y + 1)) \div 2>>

\* translate(${x}px, ${y}px) for the projected position ndc on the viewport.
translateOf(ndc, vp) ==
  <<"translate", (vp.w * (ndc.x + 1)) \div 2, (vp.h * (1 - ndc.y)) \div 2>>

\* A renderer object that has no domElement.
NoCanvas == 2

\* The greatest common divisor of two positive numbers.
RECURSIVE Gcd(_, _)
Gcd(a, b) == IF b = 0 THEN a ELSE Gcd(b, a % b)

\* The scale without its floor of 0.1.
scaleOf_noFloor(m, d) ==
  IF d <= 0 THEN <<50000 * m, 1>>
  ELSE IF m = 0 THEN <<0, 1>>
  ELSE IF m < 0 THEN <<0 - ((5 * (0 - m)) \div Gcd(5 * (0 - m), d)), d \div Gcd(5 * (0 - m), d)>>
  ELSE <<(5 * m) \div Gcd(5 * m, d), d \div Gcd(5 * m, d)>>

\* Math.max(0.1, scaleMultiplier * (5 / distance)) with a distance that is
\* not positive replaced by 0.0001, as a fraction <<numerator, denominator>>
\* in lowest terms.
scaleOf(m, d) ==
  IF d <= 0 THEN (IF m <= 0 THEN <<1, 10>> ELSE <<50000 * m, 1>>)
  ELSE IF 50 * m < d THEN <<1, 10>>
  ELSE <<(5 * m) \div Gcd(5 * m, d), d \div Gcd(5 * m, d)>>

\* objectWorldPos.add(this.offset), projected: the camera of the model looks
\* at the scene so that one unit of world space along x or y is one unit of
\* normalised device coordinates, and one unit along z one unit of distance.
projectedPos(S, n, off) == [x |-> S.nodeNdc[n].x + off[1], y |-> S.nodeNdc[n].y + off[2]]
distanceTo(S, n, off) == S.nodeDist[n] + off[3]

\* The transform built on top of the rotation the overlay already has: a
\* transform with a rotation is one of 5, 8 or 11 parts.
transformOf_keepsRotation(S, i, ndc, d) ==
  LET old == S.transform[i] IN
  translateOf(ndc, S.viewport)
    \o (IF S.autoCenter[i] THEN <<"translate%", -50, -50>> ELSE <<>>)
    \o (IF S.simulate3D[i] THEN <<"scale">> \o scaleOf(S.scaleMultiplier[i], d) ELSE <<>>)
    \o (IF S.simulateRotation[i] THEN <<"rotate", 90 * S.nodeRotation[S.object[i]]>>
         ELSE IF Len(old) % 3 = 2 THEN <<"rotate", old[Len(old)]>>
         ELSE <<>>)

\* The transform string bufferInstance builds, as the sequence of its parts.
transformOf(S, i, ndc, d) ==
  translateOf(ndc, S.viewport)
    \o (IF S.autoCenter[i] THEN <<"translate%", -50, -50>> ELSE <<>>)
    \o (IF S.simulate3D[i] THEN <<"scale">> \o scaleOf(S.scaleMultiplier[i], d) ELSE <<>>)
    \o (IF S.simulateRotation[i] THEN <<"rotate", 90 * S.nodeRotation[S.object[i]]>>
         ELSE <<>>)

\* bufferInstance(camera, renderer); object.getWorldPosition raises on a
\* node that has none.
bufferInstance(S, i, camera, renderer) ==
  IF S.object[i] = Null \/ camera = Null \/ renderer = Null \/ renderer = NoCanvas THEN S
  ELSE IF ~S.nodeVisible[S.object[i]] THEN hideOverlay(S, i)
  ELSE IF S.viewport.w = 0 \/ S.viewport.h = 0 THEN hideOverlay(S, i)
  ELSE IF S.nodeMalformed[S.object[i]] THEN [S EXCEPT !.threw = TRUE]
  ELSE
    LET n == S.object[i]
        d == distanceTo(S, n, S.offset[i])
    IN [S EXCEPT
          !.transform[i] = transformOf(S, i, projectedPos(S, n, S.offset[i]), d),
          !.zIndex[i] = <<zIndexOf(d)>>,
          !.display[i] = "block"]

\* The loop of a pass that deletes from the live set an instance whose
\* target is gone.
RECURSIVE BufferEach_removesGone(_, _, _, _, _)
BufferEach_removesGone(S, els, k, camera, renderer) ==
  IF k > Len(els) \/ S.threw THEN S
  ELSE
    LET i == els[k]
        V == [S EXCEPT !.visited = Append(@, i)]
        S1 == IF S.object[i] = Null
                THEN [hideOverlay(V, i) EXCEPT !.allLoadedElements = Remove(@, i)]
              ELSE IF S.nodeMalformed[S.object[i]] THEN [V EXCEPT !.threw = TRUE]
              ELSE IF S.nodeInFrustum[S.object[i]]
                THEN bufferInstance(V, i, camera, renderer)
              ELSE hideOverlay(V, i)
    IN BufferEach_removesGone(S1, els, k + 1, camera, renderer)

\* The body of bufferAll's loop for the elements els[k..] of the live set;
\* an exception ends the loop.
RECURSIVE BufferEach(_, _, _, _, _)
BufferEach(S, els, k, camera, renderer) ==
  IF k > Len(els) \/ S.threw THEN S
  ELSE
    LET i == els[k]
        \* the loop body is entered for element i
        V == [S EXCEPT !.visited = Append(@, i)]
        S1 == IF S.object[i] = Null THEN hideOverlay(V, i)
              ELSE IF S.nodeMalformed[S.object[i]] THEN [V EXCEPT !.threw = TRUE]
              ELSE IF S.nodeInFrustum[S.object[i]]
                THEN bufferInstance(V, i, camera, renderer)
              ELSE hideOverlay(V, i)
    IN BufferEach(S1, els, k + 1, camera, renderer)

RECURSIVE autoSetup(_, _, _, _)
RECURSIVE stopAutoSetup(_)
\* Code of the host application that a pass runs: the getWorldPosition
\* method of a node bound to a live overlay, which calls stopAutoSetup(), or
\* stopAutoSetup() and then autoSetup(camera, renderer), the first time it
\* is called.
hostInPass(S, camera, renderer) ==
  IF S.passHook = "none" \/ S.threw
       \/ ~\E i \in Range(S.allLoadedElements) : S.object[i] # Null
    THEN S
  ELSE
    LET S1 == stopAutoSetup([S EXCEPT !.passHook = "none"]) IN
    IF S.passHook = "stop" THEN S1
    ELSE autoSetup(S1, camera, renderer, NotNum("undefined"))

\* Sorcherer.bufferAll(camera, renderer)
bufferAll(S, camera, renderer) ==
  IF camera = Null \/ renderer = Null THEN S
  ELSE hostInPass(BufferEach(S, S.allLoadedElements, 1, camera, renderer),
                  camera, renderer)

(***************************************************************************)
(* The scheduler.                                                          *)
(***************************************************************************)
\* interval = 16 when the argument is omitted
DefaultInterval == 16

\* The interval taken as it is given when it is a finite number.
tickInterval_noClamp(interval) ==
  IF interval.kind = "num" THEN interval.v ELSE DefaultInterval

\* Number.isFinite(interval) ? Math.max(0, interval) : 16
tickInterval(interval) ==
  IF interval.kind = "undefined" THEN DefaultInterval
  ELSE IF interval.kind = "num" THEN (IF interval.v > 0 THEN interval.v ELSE 0)
  ELSE DefaultInterval

\* The handle setTimeout returns: an id no pending timer has and the stored
\* handle does not hold.
FreshTimer(S) ==
  LET used == {t.id : t \in S.timers} \cup {S.timeoutHandle} IN
  CHOOSE id \in 1..(Cardinality(used) + 1) :
    id \notin used /\ \A other \in 1..(id - 1) : other \in used

\* The closure autoSetup creates: its arguments, the clamped interval and,
\* for the display-sync loop, let lastTime = 0.
Closure(camera, renderer, interval) ==
  [camera |-> camera, renderer |-> renderer, tickInterval |-> tickInterval(interval),
   lastTime |-> 0]

\* The display-sync loop without its check of the running flag.
rafLoop_ignoresFlag(S, L, time) ==
  IF L.lastTime = 0 \/ time - L.lastTime >= L.tickInterval
    THEN LET S1 == bufferAll(S, L.camera, L.renderer) IN
         [S1 EXCEPT
            !.ran = @ + 1,
            !.passLog = [last |-> time,
                         spaced |-> (S.passLog.last = -1 \/
                                     time - S.passLog.last >= L.tickInterval)],
            !.rafQueue = IF S1.threw THEN @ ELSE Append(@, [L EXCEPT !.lastTime = time])]
    ELSE [S EXCEPT !.rafQueue = Append(@, L)]

\* The display-sync loop of closure L, called back with a timestamp. A pass
\* that raises leaves the loop before it requests the next frame.
rafLoop(S, L, time) ==
  IF ~S.autoUpdateRunning THEN S
  ELSE IF L.lastTime = 0 \/ time - L.lastTime >= L.tickInterval
    THEN LET S1 == bufferAll(S, L.camera, L.renderer) IN
         [S1 EXCEPT
            !.ran = @ + 1,
            !.passLog = [last |-> time,
                         spaced |-> (S.passLog.last = -1 \/
                                     time - S.passLog.last >= L.tickInterval)],
            !.rafQueue = IF S1.threw THEN @ ELSE Append(@, [L EXCEPT !.lastTime = time])]
    ELSE [S EXCEPT !.rafQueue = Append(@, L)]

\* The timer loop of closure L. A pass that raises leaves the loop before it
\* sets the next timer.
timerLoop(S, L) ==
  IF ~S.autoUpdateRunning THEN S
  ELSE
    LET S1 == [bufferAll(S, L.camera, L.renderer) EXCEPT !.ran = @ + 1]
        id == FreshTimer(S1)
    IN IF S1.threw THEN S1
       ELSE [S1 EXCEPT !.timers = @ \cup {[id |-> id, loop |-> L]}, !.timeoutHandle = id]

\* Sorcherer.autoSetup(camera, renderer, interval)
autoSetup(S, camera, renderer, interval) ==
  IF S.autoUpdateRunning \/ camera = Null \/ renderer = Null THEN S
  ELSE
    LET L == Closure(camera, renderer, interval)
        S1 == [S EXCEPT !.autoUpdateRunning = TRUE]
    IN IF S.useRaf THEN [S1 EXCEPT !.rafQueue = Append(@, L)] ELSE timerLoop(S1, L)

\* Sorcherer.stopAutoSetup()
stopAutoSetup(S) ==
  [S EXCEPT
     !.autoUpdateRunning = FALSE,
     !.timers = IF S.timeoutHandle # Null
                  THEN {t \in @ : t.id # S.timeoutHandle} ELSE @,
     !.timeoutHandle = Null]

\* A frame of the display-sync driver at timestamp time: the callbacks
\* requested before the frame run in order; what they request runs in the
\* next frame. An exception a callback raises ends that callback only.
RECURSIVE RunCallbacks(_, _, _, _)
RunCallbacks(S, queue, k, time) ==
  IF k > Len(queue) THEN S
  ELSE
    LET S1 == rafLoop([S EXCEPT !.threw = FALSE], queue[k], time) IN
    RunCallbacks([S1 EXCEPT !.threw = S.threw \/ S1.threw], queue, k + 1, time)

frame(S, time) ==
  RunCallbacks([S EXCEPT !.rafQueue = <<>>, !.clock = time], S.rafQueue, 1, time)

\* The timer tm expires.
timerExpired(S, tm) == timerLoop([S EXCEPT !.timers = @ \ {tm}], tm.loop)

(***************************************************************************)
(* Actions of the scheduler.                                               *)
(***************************************************************************)
Cameras == {1}
Renderers == {1}
Intervals == {Num(-1), Num(0), Num(2), NotNum("NaN"), NotNum("+Infinity"),
              NotNum("-Infinity"), NotNum("undefined")}

AutoSetup(camera, renderer, interval) ==
  /\ (autoUpdateRunning \/ camera = Null \/ renderer = Null
        \/ Len(rafQueue) < MaxPending)
  /\ LET S == autoSetup(State, camera, renderer, interval) IN
     /\ Commit(S)
     /\ lastCall' = [NoCall EXCEPT !.op = "autoSetup", !.wasRunning = autoUpdateRunning,
                                   !.ranPass = S.ran, !.threw = S.threw]

StopAutoSetup ==
  /\ Commit(stopAutoSetup(State))
  /\ lastCall' = [NoCall EXCEPT !.op = "stopAutoSetup", !.wasRunning = autoUpdateRunning]

Frame(time) ==
  /\ useRaf
  /\ time > clock
  /\ LET S == frame(State, time) IN
     /\ Commit(S)
     /\ lastCall' = [NoCall EXCEPT !.op = "frame", !.wasRunning = autoUpdateRunning,
                                   !.ranPass = S.ran, !.delivered = Len(rafQueue),
                                   !.threw = S.threw]

TimerExpired(tm) ==
  /\ LET S == timerExpired(State, tm) IN
     /\ Commit(S)
     /\ lastCall' = [NoCall EXCEPT !.op = "timer", !.wasRunning = autoUpdateRunning,
                                   !.ranPass = S.ran, !.threw = S.threw]

\* The host application gives a node a getWorldPosition method that stops,
\* or stops and restarts, the loop when a pass calls it.
SetHook(h) ==
  /\ Cardinality(timers) < MaxPending
  /\ Commit([State EXCEPT !.passHook = h])
  /\ lastCall' = [NoCall EXCEPT !.op = "scene"]

InitSched == \E raf \in BOOLEAN : Loaded([n \in Nodes |-> InitialName(n)], raf)

NextSched ==
  \/ \E camera \in Cameras \cup {Null}, renderer \in Renderers \cup {Null},
        interval \in Intervals : AutoSetup(camera, renderer, interval)
  \/ StopAutoSetup
  \/ \E time \in 0..MaxTime : Frame(time)
  \/ \E tm \in timers : TimerExpired(tm)
  \/ \E obj \in {1} : Construct(obj)

SpecSched == InitSched /\ [][NextSched]_vars

\* The timer driver, with overlays whose nodes call back into the scheduler.
InitTimer == Loaded([n \in Nodes |-> InitialName(n)], FALSE)

NextTimer ==
  \/ \E camera \in Cameras, renderer \in Renderers, interval \in {Num(2)} :
       AutoSetup(camera, renderer, interval)
  \/ StopAutoSetup
  \/ \E tm \in timers : TimerExpired(tm)
  \/ \E h \in {"stop", "restart"} : SetHook(h)
  \/ \E obj \in {1} : Construct(obj)
  \/ \E i \in Instances : Dispose(i)

SpecTimer == InitTimer /\ [][NextTimer]_vars

\* Scans of markup over registered nodes, with disposal by the caller or by
\* a 'removed' event, and nothing else: the markup-driven life cycle. The
\* host application names its nodes as it likes.
InitRealm == \E names \in [Nodes -> Names \cup {NoName}] : Loaded(names, TRUE)

NextRealm ==
  \/ \E obj \in Nodes : RegisterObject3D(obj)
  \/ \E els \in ElementLists : AttachFromRealm(els)
  \/ \E i \in Instances : Dispose(i)
  \/ \E n \in Nodes, target \in Nodes : DispatchRemoved(n, target)

SpecRealm == InitRealm /\ [][NextRealm]_vars

\* Overlays of one named node: made by a scan, by new Sorcherer and by
\* attachClone with the node's name or another one, and disposed.
NextHolder ==
  \/ \E obj \in {1} : RegisterObject3D(obj)
  \/ \E el \in {e \in Elements : e.idm = "a"} : AttachFromRealm(<<el>>)
  \/ \E obj \in {1} : Construct(obj)
  \/ \E i \in Instances, target \in {1}, newName \in Names : AttachClone(i, target, newName)
  \/ \E i \in Instances : Dispose(i)
  \/ \E target \in {1} : DispatchRemoved(1, target)

SpecHolder == Init /\ [][NextHolder]_vars

(***************************************************************************)
(* Culling passes over a scene the host application changes.               *)
(***************************************************************************)
\* A node at the top left corner of the view, farther away.
Corner == [inFrustum |-> TRUE, ndc |-> [x |-> -1, y |-> 1], dist |-> 10]
\* A node to the right of the view.
Outside == [inFrustum |-> FALSE, ndc |-> [x |-> 2, y |-> 0], dist |-> 10]
Poses == {Centre, Corner, Outside}
\* renderer.domElement sizes: a canvas laid out, and one with no width.
Viewports == {[w |-> 800, h |-> 600], [w |-> 0, h |-> 600]}

\* The host application moves node n (or the camera, seen from the node).
MoveNode(n, pose) ==
  /\ Commit([State EXCEPT !.nodeInFrustum[n] = pose.inFrustum,
                           !.nodeNdc[n] = pose.ndc,
                           !.nodeDist[n] = pose.dist])
  /\ lastCall' = [NoCall EXCEPT !.op = "scene"]

\* object.visible = v
SetVisible(n, v) ==
  /\ Commit([State EXCEPT !.nodeVisible[n] = v])
  /\ lastCall' = [NoCall EXCEPT !.op = "scene"]

\* The node bound to the overlays is, or stops being, an object without a
\* getWorldPosition method.
SetMalformed(n, v) ==
  /\ Commit([State EXCEPT !.nodeMalformed[n] = v])
  /\ lastCall' = [NoCall EXCEPT !.op = "scene"]

\* The canvas is resized.
Resize(vp) ==
  /\ Commit([State EXCEPT !.viewport = vp])
  /\ lastCall' = [NoCall EXCEPT !.op = "scene"]

\* instance.object = null, written by the host application when it lets go
\* of the node; the overlay stays in the live set.
DropTarget(i) ==
  /\ object[i] # Null /\ ~disposed[i]
  /\ Commit([State EXCEPT !.object[i] = Null])
  /\ lastCall' = [NoCall EXCEPT !.op = "dropTarget", !.inst = i]

\* Sorcherer.bufferAll(camera, renderer) called by the host application.
BufferAll(camera, renderer) ==
  /\ LET S == bufferAll(State, camera, renderer) IN
     /\ Commit(S)
     /\ lastCall' = [NoCall EXCEPT !.op = "bufferAll", !.threw = S.threw,
                                   !.visited = S.visited,
                                   !.node = IF camera # Null /\ renderer # Null
                                              THEN 1 ELSE Null]

\* The scene of the passes: the first node stays where it is and may be
\* malformed, the second one moves and is shown or hidden.
Fixed == {1}
Moving == {2}

NextPass ==
  \/ \E obj \in Fixed \cup Moving : Construct(obj)
  \/ \E i \in Instances : Dispose(i)
  \/ \E n \in Moving, pose \in Poses : MoveNode(n, pose)
  \/ \E n \in Moving, v \in BOOLEAN : SetVisible(n, v)
  \/ \E n \in Fixed, v \in BOOLEAN : SetMalformed(n, v)
  \/ \E vp \in Viewports : Resize(vp)
  \/ \E camera \in Cameras \cup {Null}, renderer \in Renderers : BufferAll(camera, renderer)

SpecPass == Init /\ [][NextPass]_vars

\* Passes over overlays the host application lets go of.
NextGone ==
  \/ \E obj \in Moving : Construct(obj)
  \/ \E obj \in Fixed : RegisterObject3D(obj)
  \/ \E i \in Instances \cap {1}, target \in Fixed, newName \in {"b"} :
       AttachClone(i, target, newName)
  \/ \E i \in Instances : DropTarget(i)
  \/ \E i \in Instances \cap {1} : Dispose(i)
  \/ \E n \in Moving, pose \in {Centre, Outside} : MoveNode(n, pose)
  \/ \E camera \in Cameras \cup {Null}, renderer \in Renderers : BufferAll(camera, renderer)

SpecGone == Init /\ [][NextGone]_vars

\* Either driver, with an overlay whose node may lose its getWorldPosition
\* method.
NextLive ==
  \/ \E camera \in Cameras, renderer \in Renderers, interval \in {Num(2)} :
       AutoSetup(camera, renderer, interval)
  \/ StopAutoSetup
  \/ \E time \in 0..MaxTime : Frame(time)
  \/ \E tm \in timers : TimerExpired(tm)
  \/ \E obj \in {1} : Construct(obj)
  \/ \E v \in BOOLEAN : SetMalformed(1, v)

SpecLive == InitSched /\ [][NextLive]_vars

(***************************************************************************)
(* One overlay and its template.                                           *)
(***************************************************************************)
\* $a=1$<$a=2$ : a name repeated with another default
RepeatTpl == <<Dollar, "a", Equals, "1", Dollar, "<", Dollar, "a", Equals, "2", Dollar>>
\* <$b$$a$ : names without a default, after text that is no placeholder
PlainTpl == <<"<", Dollar, "b", Dollar, Dollar, "a", Dollar>>
\* $valueOf=1$
ValueOfTpl == <<Dollar>> \o ValueOfName \o <<Equals, "1", Dollar>>
\* <$template$
FieldTpl == <<"<", Dollar>> \o TemplateName \o <<Dollar>>
TemplatePool == {RepeatTpl, PlainTpl, ValueOfTpl, FieldTpl}
\* The variable names and the value the host application sets.
VarNames == {<<"a">>, <<"b">>, TemplateName}
Values == {<<"9">>}

\* instance.dynamicVars[varName] = value, written by the host application
\* into the public map.
writeVar(S, i, varName, value) ==
  [S EXCEPT !.dynamicVars[i] = SetKey(@, varName, value)]

\* instance[varName] = value without the re-render of the accessor's setter.
assignProp_storesOnly(S, i, varName, value) ==
  IF varName \in S.dynamicVarNames[i] THEN writeVar(S, i, varName, value)
  ELSE IF varName = TemplateName THEN writeTemplate(S, i, value)
  ELSE S

\* instance[varName] = value: the setter of the accessor when the name has
\* one, else the field of that name.
assignProp(S, i, varName, value) ==
  IF varName \in S.dynamicVarNames[i] THEN setDynamicVar(S, i, varName, value)
  ELSE IF varName = TemplateName THEN writeTemplate(S, i, value)
  ELSE S

\* instance[varName]: the getter of the accessor when the name has one, else
\* the field, or what the instance inherits under that name.
readProp(S, i, varName) ==
  IF varName \in S.dynamicVarNames[i] THEN getDynamicVar(S, i, varName)
  ELSE IF varName = TemplateName THEN readTemplate(S, i)
  ELSE IF varName \in ProtoKeys THEN NativeCode
  ELSE Undefined

SetDynamicVar(i, varName, value) ==
  /\ LET S == setDynamicVar(State, i, varName, value) IN
     /\ Commit(S)
     /\ lastCall' = [NoCall EXCEPT !.op = "setDynamicVar", !.inst = i, !.varName = varName,
                                   !.value = value, !.onDisposed = disposed[i],
                                   !.threw = S.threw]

WriteVar(i, varName, value) ==
  /\ Commit(writeVar(State, i, varName, value))
  /\ lastCall' = [NoCall EXCEPT !.op = "writeVar", !.inst = i, !.varName = varName,
                                 !.value = value, !.onDisposed = disposed[i]]

\* instance[varName] = value for a name that has an accessor or is a field.
AssignProp(i, varName, value) ==
  /\ varName \in dynamicVarNames[i] \cup {TemplateName}
  /\ LET S == assignProp(State, i, varName, value) IN
     /\ Commit(S)
     /\ lastCall' = [NoCall EXCEPT !.op = "assignProp", !.inst = i, !.varName = varName,
                                   !.value = value, !.onDisposed = disposed[i],
                                   !.threw = S.threw]

RenderDynamicVars(i) ==
  /\ LET S == renderDynamicVars(State, i) IN
     /\ Commit(S)
     /\ lastCall' = [NoCall EXCEPT !.op = "renderDynamicVars", !.inst = i,
                                   !.onDisposed = disposed[i], !.threw = S.threw]

BufferInstance(i, camera, renderer) ==
  /\ LET S == bufferInstance(State, i, camera, renderer) IN
     /\ Commit(S)
     /\ lastCall' = [NoCall EXCEPT !.op = "bufferInstance", !.inst = i,
                                   !.onDisposed = disposed[i], !.threw = S.threw,
                                   !.renderer = renderer,
                                   !.wasRotated = Len(transform[i]) % 3 = 2]

\* One overlay constructed on the first node.
InitTemplate ==
  /\ Started(constructor(LoadedState([n \in Nodes |-> InitialName(n)], TRUE), 1,
                         DefaultOpts))
  /\ lastCall = [NoCall EXCEPT !.op = "new", !.node = 1, !.created = {1}]

NextTemplate ==
  \/ \E i \in Instances, tpl \in TemplatePool : Attach(i, tpl)
  \/ \E i \in Instances, varName \in VarNames, value \in Values :
       SetDynamicVar(i, varName, value)
  \/ \E i \in Instances, varName \in VarNames, value \in Values :
       WriteVar(i, varName, value)
  \/ \E i \in Instances, varName \in VarNames, value \in Values :
       AssignProp(i, varName, value)
  \/ \E i \in Instances : RenderDynamicVars(i)
  \/ \E i \in Instances, camera \in Cameras, renderer \in Renderers :
       BufferInstance(i, camera, renderer)
  \/ \E i \in Instances : Dispose(i)

SpecTemplate == InitTemplate /\ [][NextTemplate]_vars

\* Values that are themselves placeholder text: $b$
RenderValues == Values \cup {<<Dollar, "b", Dollar>>}

\* One overlay rendered again and again, with such values.
NextRender ==
  \/ \E i \in Instances, tpl \in {PlainTpl, FieldTpl} : Attach(i, tpl)
  \/ \E i \in Instances, varName \in VarNames, value \in RenderValues :
       SetDynamicVar(i, varName, value)
  \/ \E i \in Instances : RenderDynamicVars(i)

SpecRender == InitTemplate /\ [][NextRender]_vars

(***************************************************************************)
(* Bootstrap.                                                              *)
(***************************************************************************)
\* Sorcherer.registerScene(scene): scene is the sequence of nodes
\* scene.traverse visits, empty for a scene that is null or cannot be
\* traversed.
RECURSIVE registerScene(_, _)
registerScene(S, scene) ==
  IF scene = <<>> THEN S
  ELSE registerScene(IF S.nodeName[Head(scene)] # NoName
                       THEN registerObject3D(S, Head(scene)) ELSE S,
                     Tail(scene))

\* options = {}: interval = 16, autoAttach = true, autoRegister = true
DefaultOptions ==
  [interval |-> NotNum("undefined"), autoAttach |-> TRUE, autoRegister |-> TRUE]

\* bootstrap that scans the markup before it registers the scene.
bootstrap_attachFirst(S, scene, camera, renderer, options, els) ==
  IF camera = Null \/ renderer = Null THEN [S EXCEPT !.kept = Range(els)]
  ELSE
    LET S1 == IF options.autoAttach /\ S.hasDocument THEN attachFromRealm(S, els)
              ELSE [S EXCEPT !.kept = Range(els)]
        S2 == IF options.autoRegister THEN registerScene(S1, scene) ELSE S1
    IN autoSetup(S2, camera, renderer, options.interval)

\* Sorcherer.bootstrap(scene, camera, renderer, options), els the [idm]
\* elements of the document at the time of the call.
bootstrap(S, scene, camera, renderer, options, els) ==
  IF camera = Null \/ renderer = Null THEN [S EXCEPT !.kept = Range(els)]
  ELSE
    LET S1 == IF options.autoRegister THEN registerScene(S, scene) ELSE S
        S2 == IF options.autoAttach /\ S1.hasDocument THEN attachFromRealm(S1, els)
              ELSE [S1 EXCEPT !.kept = Range(els)]
    IN autoSetup(S2, camera, renderer, options.interval)

\* The traversals of the scenes handed to bootstrap.
Scenes == {<<1, 2>>, <<>>}
OptionSets ==
  {DefaultOptions, [DefaultOptions EXCEPT !.autoRegister = FALSE],
   [DefaultOptions EXCEPT !.autoAttach = FALSE, !.interval = Num(2)]}

Bootstrap(scene, camera, renderer, options, els) ==
  /\ Len(object) + Len(els) <= MaxInst
  /\ (autoUpdateRunning \/ camera = Null \/ Len(rafQueue) < MaxPending)
  /\ LET S == bootstrap(State, scene, camera, renderer, options, els) IN
     /\ Commit(S)
     /\ lastCall' = [NoCall EXCEPT !.op = "bootstrap",
                                   !.node = IF camera # Null /\ renderer # Null
                                              THEN 1 ELSE Null,
                                   !.idms = {els[k].idm : k \in 1..Len(els)},
                                   !.created = (Len(object) + 1)..Len(S.object),
                                   !.before = {k \in Names : objectRegistry[k] # Null},
                                   !.wasRunning = autoUpdateRunning,
                                   !.ranPass = S.ran, !.threw = S.threw, !.kept = S.kept]

\* Both nodes of the scene are named.
InitBoot ==
  \E raf \in BOOLEAN : Loaded([n \in Nodes |-> IF n = 1 THEN "a" ELSE "b"], raf)

NextBoot ==
  \/ \E scene \in Scenes, camera \in Cameras \cup {Null}, renderer \in Renderers,
        options \in OptionSets, el \in {e \in Elements : e.idm # NoName} :
       Bootstrap(scene, camera, renderer, options, <<el>>)
  \/ \E obj \in {1} : RegisterObject3D(obj)
  \/ StopAutoSetup
  \/ \E i \in Instances : Dispose(i)

SpecBoot == InitBoot /\ [][NextBoot]_vars

(***************************************************************************)
(* Overlays constructed with arguments, and their clones.                  *)
(***************************************************************************)
\* Sorcherer.defaultScaleMultiplier = v, assigned by the host application,
\* with the effect of a default that existing instances read when they use
\* it.
setDefaultScaleMultiplier_live(S, v) ==
  [S EXCEPT !.defaultScaleMultiplier = v,
            !.scaleMultiplier = [i \in DOMAIN @ |->
                                   IF @[i] = S.defaultScaleMultiplier THEN v ELSE @[i]]]

\* Sorcherer.defaultScaleMultiplier = v, assigned by the host application.
setDefaultScaleMultiplier(S, v) == [S EXCEPT !.defaultScaleMultiplier = v]

\* An overlay above its node, scaled, rotated and centred, with its own
\* scale multiplier.
FullOpts ==
  [offset |-> <<0, 1, 0>>, simulate3D |-> TRUE, simulateRotation |-> TRUE,
   autoCenter |-> TRUE, scaleMultiplier |-> Num(0)]
\* The arguments the model's callers construct with.
OptsPool == {DefaultOpts, FullOpts}
\* The values the host application gives the default scale multiplier.
DefaultMultipliers == {1, 2}
\* The templates of the overlays that are cloned.
CloneTemplates == {RepeatTpl, FieldTpl}

ConstructWith(obj, opts) ==
  /\ Len(object) < MaxInst
  /\ Commit(constructor(State, obj, opts))
  /\ lastCall' = [NoCall EXCEPT !.op = "new", !.node = obj, !.opts = opts,
                                 !.created = {Len(object) + 1}]

SetDefaultScaleMultiplier(v) ==
  /\ Commit(setDefaultScaleMultiplier(State, v))
  /\ lastCall' = [NoCall EXCEPT !.op = "setDefaultScaleMultiplier"]

NextConfig ==
  \/ \E obj \in {1}, opts \in OptsPool : ConstructWith(obj, opts)
  \/ \E v \in DefaultMultipliers : SetDefaultScaleMultiplier(v)
  \/ \E i \in Instances \cap {1}, tpl \in CloneTemplates : Attach(i, tpl)
  \/ \E i \in Instances, value \in Values : SetDynamicVar(i, <<"a">>, value)
  \/ \E i \in Instances, target \in {2}, newName \in {"b", NoName} :
       AttachClone(i, target, newName)

SpecConfig == Init /\ [][NextConfig]_vars

(***************************************************************************)
(* One overlay updated frame by frame.                                     *)
(***************************************************************************)
\* A node at the bottom right corner of the view, far away.
Opposite == [inFrustum |-> TRUE, ndc |-> [x |-> 1, y |-> -1], dist |-> 100]
\* A node at the position of the camera.
AtCamera == [inFrustum |-> TRUE, ndc |-> [x |-> 0, y |-> 0], dist |-> 0]
\* A node 16 units away: 1000 / 16 = 62.5.
Sixteen == [inFrustum |-> TRUE, ndc |-> [x |-> 0, y |-> 0], dist |-> 16]
\* A node whose distance from the camera is not a finite number. The code
\* treats such a distance like one that is not positive
\* (!Number.isFinite(distance) || distance <= 0); it is written -1 here.
NotFinite == [inFrustum |-> TRUE, ndc |-> [x |-> 0, y |-> 0], dist |-> -1]
FramePoses == {Centre, Corner, Opposite, AtCamera, Sixteen, NotFinite}
\* Canvas sizes: laid out, and without width or without height.
FrameViewports == {[w |-> 800, h |-> 600], [w |-> 0, h |-> 600], [w |-> 800, h |-> 0]}
\* The scale multipliers overlays are constructed with.
Multipliers == {-1, 0, 1, 2}
\* The arguments the overlay of the frame is constructed with: scaled with
\* each multiplier, plain, or offset, centred, scaled and rotated.
FrameOpts ==
  {[DefaultOpts EXCEPT !.simulate3D = TRUE, !.scaleMultiplier = Num(m)] : m \in Multipliers}
    \cup {DefaultOpts, FullOpts}

InitFrame ==
  \E opts \in FrameOpts :
    /\ Started(constructor(LoadedState([n \in Nodes |-> InitialName(n)], TRUE), 1, opts))
    /\ lastCall = [NoCall EXCEPT !.op = "new", !.node = 1, !.opts = opts, !.created = {1}]

NextFrame ==
  \/ \E pose \in FramePoses : MoveNode(1, pose)
  \/ \E v \in BOOLEAN : SetVisible(1, v)
  \/ \E v \in BOOLEAN : SetMalformed(1, v)
  \/ \E vp \in FrameViewports : Resize(vp)
  \/ \E i \in Instances, camera \in Cameras, renderer \in Renderers \cup {NoCanvas} :
       BufferInstance(i, camera, renderer)
  \/ \E i \in Instances : Dispose(i)

SpecFrame == InitFrame /\ [][NextFrame]_vars

\* instance.autoCenter, instance.simulate3D and instance.simulateRotation
\* are public fields the host application switches between two updates.
SetFlags(i, centre, scaled, rotated) ==
  /\ ~disposed[i]
  /\ Commit([State EXCEPT !.autoCenter[i] = centre, !.simulate3D[i] = scaled,
                           !.simulateRotation[i] = rotated])
  /\ lastCall' = [NoCall EXCEPT !.op = "flags", !.inst = i]

\* object.rotation.z = q * Math.PI / 2
Rotate(n, q) ==
  /\ Commit([State EXCEPT !.nodeRotation[n] = q])
  /\ lastCall' = [NoCall EXCEPT !.op = "scene"]

QuarterTurns == {-1, 0, 1}

\* One overlay whose flags are switched and whose node turns and moves.
InitFlags ==
  \E opts \in OptsPool :
    /\ Started(constructor(LoadedState([n \in Nodes |-> InitialName(n)], TRUE), 1, opts))
    /\ lastCall = [NoCall EXCEPT !.op = "new", !.node = 1, !.opts = opts, !.created = {1}]

NextFlags ==
  \/ \E i \in Instances, centre \in BOOLEAN, scaled \in BOOLEAN, rotated \in BOOLEAN :
       SetFlags(i, centre, scaled, rotated)
  \/ \E q \in QuarterTurns : Rotate(1, q)
  \/ \E pose \in {Centre, Corner} : MoveNode(1, pose)
  \/ \E i \in Instances, camera \in Cameras, renderer \in Renderers :
       BufferInstance(i, camera, renderer)

SpecFlags == InitFlags /\ [][NextFlags]_vars

\* $object$ : a placeholder named as the field of the target node
ObjectTpl == <<Dollar>> \o ObjectName \o <<Dollar>>

\* One overlay whose templates name placeholders as the instance names its
\* fields.
NextFields ==
  \/ \E i \in Instances, tpl \in {ObjectTpl, PlainTpl} : Attach(i, tpl)
  \/ \E i \in Instances, value \in Values : SetDynamicVar(i, <<"a">>, value)
  \/ \E i \in Instances, camera \in Cameras, renderer \in Renderers :
       BufferInstance(i, camera, renderer)
  \/ \E pose \in {Centre, Corner} : MoveNode(1, pose)
  \/ \E target \in Nodes : DispatchRemoved(1, target)
  \/ \E i \in Instances : Dispose(i)

SpecFields == InitFlags /\ [][NextFields]_vars

(***************************************************************************)
(* No document: the module loaded where typeof document is 'undefined'.    *)
(***************************************************************************)
\* Neither a document nor requestAnimationFrame, as under Node.js.
InitHeadless ==
  /\ Started([LoadedState([n \in Nodes |-> InitialName(n)], FALSE)
                EXCEPT !.hasDocument = FALSE])
  /\ lastCall = NoCall

NextHeadless ==
  \/ \E obj \in {1} : Construct(obj)
  \/ \E i \in Instances \cap {1}, tpl \in Templates : Attach(i, tpl)
  \/ \E i \in Instances \cap {1}, value \in Values : SetDynamicVar(i, <<"a">>, value)
  \/ \E i \in Instances : Dispose(i)
  \/ \E i \in Instances \cap {1}, target \in {2}, newName \in {"b", NoName} :
       AttachClone(i, target, newName)
  \/ \E obj \in {1} : RegisterObject3D(obj)
  \/ \E el \in Elements : AttachFromRealm(<<el>>)
  \/ \E camera \in Cameras, renderer \in Renderers : BufferAll(camera, renderer)
  \/ \E camera \in Cameras, renderer \in Renderers : AutoSetup(camera, renderer, Num(2))
  \/ StopAutoSetup

SpecHeadless == InitHeadless /\ [][NextHeadless]_vars

(***************************************************************************)
(* Properties of the registry.                                             *)
(***************************************************************************)
Live == Range(allLoadedElements)
\* The instances instancesById holds under some key.
Registered == {instancesById[k] : k \in Names} \ {Null}
\* The instances whose 'removed' listener is registered on some node.
Listening == UNION {nodeListeners[n] : n \in Nodes}
\* Everything but the history.
progVars == <<hasDocument, nodeName, nodeListeners, objectRegistry, allLoadedElements,
              instancesById, object, disposed, removedListener, parentElement,
              display, template, dynamicVars, dynamicVarNames, innerHTML,
              templateDeleted, transform, zIndex,
              offset, simulate3D, simulateRotation, autoCenter, scaleMultiplier,
              defaultScaleMultiplier,
              nodeVisible, nodeInFrustum, nodeMalformed, nodeNdc, nodeDist, nodeRotation,
              passHook, viewport,
              useRaf, autoUpdateRunning, timeoutHandle, rafQueue, timers, clock>>

\* C1: a disposed instance is in no registry: not in the live set, not the
\* value of any key of instancesById, and its listener is on no node.
C1_DisposedIsGone ==
  \A i \in Instances :
    disposed[i] => (i \notin Live /\ i \notin Registered /\ i \notin Listening)

\* C2: dispose() on an instance that is already disposed changes nothing:
\* the live set, instancesById, the object registry, the listeners of every
\* node and every field of every instance stay as they were.
C2_DisposeIdempotent ==
  [][(lastCall'.op = "dispose" /\ lastCall'.inst \in Instances
        /\ disposed[lastCall'.inst])
       => UNCHANGED progVars]_vars

\* dispose() called on a disposed instance while other instances are live
\* and registered
C2_Witness ==
  /\ lastCall.op = "dispose"
  /\ lastCall.onDisposed
  /\ Registered # {}
  /\ Live # {}

\* With a display surface, the live set holds exactly the instances that are
\* not disposed, each once.
C3_LiveSetInv ==
  hasDocument =>
    /\ \A i \in Instances : (i \in Live) <=> ~disposed[i]
    /\ Live \subseteq Instances
    /\ Cardinality(Live) = Len(allLoadedElements)

\* An instance enters the live set only in the step that constructs it and
\* leaves it only in the step that disposes it.
C3_LiveSetSteps ==
  LET live1 == {allLoadedElements'[k] : k \in 1..Len(allLoadedElements')} IN
  /\ \A i \in live1 \ Live : i \notin Instances /\ i \in lastCall'.created
  /\ \A i \in Live \ live1 : ~disposed[i] /\ disposed'[i]

\* C3: with a display surface, the live set holds exactly the instances
\* constructed and not yet disposed; no operation other than the constructor
\* adds to it and no operation other than dispose() removes from it.
C3_LiveSet == []C3_LiveSetInv /\ [][C3_LiveSetSteps]_vars

\* one instance disposed and out of the set, another one live and in it
C3_Witness ==
  /\ \E i \in Instances : disposed[i] /\ i \notin Live
  /\ \E i \in Instances : ~disposed[i] /\ i \in Live

C4_RegisteredOnReturn ==
  /\ (lastCall.op = "attachFromRealm" \/
      (lastCall.op = "attachClone" /\ lastCall.name # NoName /\ lastCall.node # Null))
       => \A i \in lastCall.created :
            ~disposed[i] =>
              /\ object[i] # Null
              /\ nodeName[object[i]] # NoName
              /\ instancesById[nodeName[object[i]]] = i

\* new Sorcherer and attachClone without a newName leave instancesById as it
\* was.
C4_OnlyTheyRegister ==
  (lastCall'.op = "new" \/ (lastCall'.op = "attachClone" /\ lastCall'.name = NoName))
    => instancesById' = instancesById

C5_CloneSupersedes ==
  (lastCall.op = "attachClone" /\ lastCall.name # NoName /\ lastCall.node # Null
     /\ lastCall.prev # Null)
    => /\ \A c \in lastCall.created : instancesById[lastCall.name] = c
       /\ (disposed[lastCall.prev] /\ lastCall.prev \notin Live)

C7_RemovedStep ==
  lastCall'.op = "removed" =>
    \A i \in Instances :
      (~disposed[i] /\ object[i] = lastCall'.node) =>
        IF lastCall'.target = lastCall'.node
          THEN /\ disposed'[i]
               /\ i \notin {allLoadedElements'[k] : k \in 1..Len(allLoadedElements')}
               /\ \A k \in Names : instancesById'[k] # i
               /\ \A n \in Nodes : i \notin nodeListeners'[n]
          ELSE UNCHANGED progVars

\* C7: a 'removed' event delivered on a node with that node as its target
\* disposes every undisposed instance bound to the node (out of the live
\* set and of instancesById, listener gone); delivered with another target
\* it leaves the instance as it was.
C7_RemovedDisposes == [][C7_RemovedStep]_vars

(***************************************************************************)
(* Properties of the scheduler.                                            *)
(***************************************************************************)
\* The loop callbacks pending with a driver.
Pending == Len(rafQueue) + Cardinality(timers)

\* While autoUpdateRunning is set, at most one loop callback is pending with
\* the drivers (each pending callback reschedules itself when delivered).
C8_OneChain == autoUpdateRunning => Pending <= 1

\* autoSetup() called while the loop is running changes nothing.
C8_StartWhileRunning ==
  (lastCall'.op = "autoSetup" /\ autoUpdateRunning) => UNCHANGED progVars

\* C8: at most one loop is alive at any time, over every interleaving of
\* autoSetup(), stopAutoSetup() and driver callbacks, and autoSetup() called
\* while the loop is running changes nothing.
C8_SingleLoop == []C8_OneChain /\ [][C8_StartWhileRunning]_vars

\* While the flag is clear no timer is pending.
C9_Stopped == ~autoUpdateRunning => (timers = {} /\ timeoutHandle = Null)

\* A callback delivered while the flag is clear runs no pass and requests no
\* further callback; stopAutoSetup() clears the flag and the timer, and
\* changes nothing when nothing is running.
C9_Step ==
  /\ (~autoUpdateRunning /\ lastCall'.op \in {"frame", "timer"})
       => /\ lastCall'.ranPass = 0
          /\ rafQueue' = <<>>
          /\ timers' = {}
          /\ display' = display
          /\ ~autoUpdateRunning'
  /\ lastCall'.op = "stopAutoSetup"
       => (~autoUpdateRunning' /\ timers' = {} /\ timeoutHandle' = Null)
  /\ (lastCall'.op = "stopAutoSetup" /\ ~autoUpdateRunning) => UNCHANGED progVars

\* C9: between stopAutoSetup() and the next autoSetup() the scheduler
\* executes no pass: a frame delivered while the flag is clear runs no pass
\* and requests no further callback, stopAutoSetup() leaves no timer
\* pending, and stopAutoSetup() while nothing is running changes nothing.
C9_NoPassAfterStop == []C9_Stopped /\ [][C9_Step]_vars

\* a queued callback delivered after stopAutoSetup(), with an overlay that
\* a pass would have shown
C9_Witness ==
  /\ lastCall.op = "frame"
  /\ ~lastCall.wasRunning
  /\ lastCall.delivered >= 1
  /\ \E i \in Live : display[i] = "none"

\* C10: under the display-sync driver, two consecutive passes are at least
\* the clamped interval (of the loop executing the later one) apart.
C10_Throttled == passLog.spaced

\* The loop closures pending with a driver.
PendingLoops == Range(rafQueue) \cup {t.loop : t \in timers}

\* The closures a step has created and handed to a driver.
StartedLoops ==
  IF useRaf THEN {rafQueue'[k] : k \in (Len(rafQueue) + 1)..Len(rafQueue')}
  ELSE {t.loop : t \in timers' \ timers}

\* What autoSetup() that starts a loop does with its interval argument.
C11_Step ==
  \A camera \in Cameras, renderer \in Renderers, interval \in Intervals :
    (~autoUpdateRunning /\ AutoSetup(camera, renderer, interval)) =>
      /\ StartedLoops # {}
      /\ \A L \in StartedLoops :
           L.tickInterval = IF interval.kind = "num"
                              THEN (IF interval.v >= 0 THEN interval.v ELSE 0)
                              ELSE 16

\* C11: the interval the scheduler uses is max(0, interval) when interval
\* is a finite number and 16 when it is NaN, +Infinity, -Infinity or
\* omitted; the interval of a loop is never negative.
C11_IntervalClamped ==
  [](\A L \in PendingLoops : L.tickInterval >= 0) /\ [][C11_Step]_vars

\* autoSetup() has started a loop whose interval is the clamp of a negative
\* or zero argument
C11_Witness ==
  /\ lastCall.op = "autoSetup"
  /\ ~lastCall.wasRunning
  /\ autoUpdateRunning
  /\ \E L \in PendingLoops : L.tickInterval = 0

(***************************************************************************)
(* Properties of the culling pass.                                         *)
(***************************************************************************)
\* bufferAll(camera, renderer) with a camera and a renderer has just ended.
AfterPass == lastCall.op = "bufferAll" /\ lastCall.node # Null

\* What its own node asks for instance i: shown or hidden.
OwnDisplay(i) ==
  LET n == object[i] IN
  IF nodeInFrustum[n] /\ nodeVisible[n] /\ viewport.w # 0 /\ viewport.h # 0
    THEN "block" ELSE "none"

\* C12: a failure on one live instance does not abort the pass: bufferAll
\* does not raise, and every live instance whose own node is well formed
\* ends the pass hidden or shown as its own node asks.
C12_PassIsolated ==
  AfterPass =>
    /\ ~lastCall.threw
    /\ \A i \in Live :
         (object[i] # Null /\ ~nodeMalformed[object[i]]) => display[i] = OwnDisplay(i)

\* C14: after each bufferAll a live instance whose node is outside the
\* frustum is hidden, and one whose node is inside, visible, on a viewport
\* that is not empty, is shown with the transform and z-index of the
\* node's position in that pass.
C14_VisibilityFollows ==
  AfterPass =>
    \A i \in Live :
      (object[i] # Null /\ ~nodeMalformed[object[i]]) =>
        LET n == object[i] IN
        /\ ~nodeInFrustum[n] => display[i] = "none"
        /\ (nodeInFrustum[n] /\ nodeVisible[n] /\ viewport.w # 0 /\ viewport.h # 0) =>
             /\ display[i] = "block"
             /\ transform[i] = <<"translate", ((nodeNdc[n].x + 1) * viewport.w) \div 2,
                                              ((1 - nodeNdc[n].y) * viewport.h) \div 2>>
             /\ zIndex[i] = <<IF nodeDist[n] = 5 THEN 200 ELSE 100>>

(***************************************************************************)
(* Properties of the template.                                             *)
(***************************************************************************)
\* The variable names that occur in placeholders of the text t.
NamesIn(t) == {Matches(t, 1)[k].varName : k \in 1..Len(Matches(t, 1))}

\* The inline default of the first placeholder of varName in t, '' when it
\* has none.
FirstDefault(t, varName) ==
  LET ms == Matches(t, 1)
      k == CHOOSE k \in 1..Len(ms) :
             ms[k].varName = varName /\ \A j \in 1..(k - 1) : ms[j].varName # varName
  IN IF ms[k].hasDefault THEN ms[k].defaultVal ELSE <<>>

\* C13: after bufferInstance has taken the visible path, the content is the
\* template rendered with the current values of the variable map.
C13_RenderedAfterPass ==
  (lastCall.op = "bufferInstance" /\ ~lastCall.onDisposed /\ ~lastCall.threw
     /\ display[lastCall.inst] = "block"
     /\ attached[lastCall.inst] # <<>>
     /\ readTemplate(State, lastCall.inst) = attached[lastCall.inst])
    => innerHTML[lastCall.inst] =
         ReplaceFrom(attached[lastCall.inst], 1, dynamicVars[lastCall.inst])

\* C15: after attach(t) each variable name of t has the value of its first
\* occurrence: that occurrence's inline default, else the empty string.
C15_FirstOccurrenceWins ==
  lastCall.op = "attach" =>
    \A varName \in NamesIn(lastCall.tpl) :
      getDynamicVar(State, lastCall.inst, varName) = FirstDefault(lastCall.tpl, varName)

\* C16: after setDynamicVar(name, v) for a name that occurs in the template,
\* the content is the template with every placeholder of that name replaced
\* by v (whatever its inline default) and the rest of the text as it is.
C16_SetReplacesAll ==
  (lastCall.op = "setDynamicVar" /\ lastCall.varName \in NamesIn(attached[lastCall.inst]))
    => /\ ~lastCall.threw
       /\ getDynamicVar(State, lastCall.inst, lastCall.varName) = lastCall.value
       /\ innerHTML[lastCall.inst] =
            ReplaceFrom(attached[lastCall.inst], 1, dynamicVars[lastCall.inst])

\* What a second attach() leaves of the variables and accessors.
C17_Step ==
  (lastCall'.op = "attach" /\ attached[lastCall'.inst] # <<>>) =>
    LET i == lastCall'.inst
        t2 == lastCall'.tpl
    IN /\ DOMAIN dynamicVars'[i] = NamesIn(t2)
       /\ \A varName \in NamesIn(t2) : dynamicVars'[i][varName] = FirstDefault(t2, varName)
       /\ dynamicVarNames'[i] = NamesIn(t2)

\* C17: after attach(t2) on an instance that had a template, the variable
\* map holds exactly the names of t2, each at its default in t2, and the
\* accessors are exactly those of the names of t2.
C17_ReattachResets == [][C17_Step]_vars

\* The claim about a name the template does not contain, as made.
C18_AsClaimed ==
  LET i == lastCall'.inst
      varName == lastCall'.varName
  IN
  /\ (lastCall'.op = "setDynamicVar" /\ varName \notin NamesIn(attached[i])) =>
       /\ Get(dynamicVars'[i], varName) = lastCall'.value
       /\ innerHTML'[i] = innerHTML[i]
       /\ dynamicVarNames'[i] = dynamicVarNames[i]
       /\ \A other \in DOMAIN dynamicVars[i] \ {varName} :
            dynamicVars'[i][other] = dynamicVars[i][other]
  /\ lastCall'.op = "attach" =>
       \A stored \in (DOMAIN dynamicVars[i] \cap NamesIn(lastCall'.tpl))
                        \ NamesIn(attached[i]) :
         Get(dynamicVars'[i], stored) = dynamicVars[i][stored]

\* C18 as claimed: setDynamicVar(name, v) for a name that is not in the
\* template stores v and leaves content, accessors and the other values as
\* they were, and the stored value applies once a template that contains the
\* name is attached.
C18_StoredForLater == [][C18_AsClaimed]_vars

\* The content of instance i is its template rendered with its values, or
\* there is no template to render.
ContentCurrent(i) ==
  LET t == readTemplate(State, i) IN
  t = Undefined \/ innerHTML[i] = ReplaceFrom(t, 1, dynamicVars[i])

C18_AsAmended ==
  LET i == lastCall'.inst
      varName == lastCall'.varName
  IN
  /\ (lastCall'.op = "setDynamicVar" /\ varName \notin NamesIn(attached[i])) =>
       /\ Get(dynamicVars'[i], varName) = lastCall'.value
       /\ ContentCurrent(i) => innerHTML'[i] = innerHTML[i]
       /\ dynamicVarNames'[i] = dynamicVarNames[i]
       /\ \A other \in DOMAIN dynamicVars[i] \ {varName} :
            dynamicVars'[i][other] = dynamicVars[i][other]
  /\ lastCall'.op = "attach" =>
       \A kept \in DOMAIN dynamicVars'[i] :
         /\ kept \in NamesIn(lastCall'.tpl)
         /\ dynamicVars'[i][kept] = FirstDefault(lastCall'.tpl, kept)

\* C18 as amended: setDynamicVar(name, v) for a name that is not in the
\* template stores v, leaves the accessors and the other values as they
\* were, and leaves the content as it was when that content was up to date;
\* the next attach() discards the stored value: after it the variable map
\* holds only names of the new template, each at the default of its first
\* occurrence.
C18_StoredUntilAttach == [][C18_AsAmended]_vars

\* a value stored under a name the attached template does not contain
C18_Witness ==
  /\ lastCall.op = "setDynamicVar"
  /\ attached[lastCall.inst] # <<>>
  /\ lastCall.varName \notin NamesIn(attached[lastCall.inst])
  /\ lastCall.varName \in DOMAIN dynamicVars[lastCall.inst]
  /\ dynamicVars[lastCall.inst][lastCall.varName] = lastCall.value
  /\ innerHTML[lastCall.inst] # <<>>

C20_Step ==
  (lastCall'.op \in {"attach", "setDynamicVar", "renderDynamicVars", "bufferInstance"}
     /\ disposed[lastCall'.inst])
    => (UNCHANGED progVars /\ ~lastCall'.threw)

\* C20: attach, setDynamicVar, renderDynamicVars and bufferInstance called
\* on a disposed instance do not raise and change nothing.
C20_DisposedNoOp == [][C20_Step]_vars

(***************************************************************************)
(* Properties of a scan of the markup.                                     *)
(***************************************************************************)
\* What a scan does with the elements it cannot bind and with the others.
C21_Step ==
  lastCall'.op = "attachFromRealm" =>
    LET unbound == {idm \in lastCall'.idms : idm # NoName /\ objectRegistry[idm] = Null}
        bound == {idm \in lastCall'.idms : idm # NoName /\ objectRegistry[idm] # Null}
    IN /\ ~lastCall'.threw
       /\ objectRegistry' = objectRegistry
       /\ \A idm \in unbound : \E el \in lastCall'.kept : el.idm = idm
       /\ bound = {} => UNCHANGED progVars
       /\ \A idm \in bound :
            \E i \in (Len(object) + 1)..Len(object') :
              /\ object'[i] = objectRegistry[idm]
              /\ ~disposed'[i]
              /\ i \in Range(allLoadedElements')
              /\ nodeName[objectRegistry[idm]] # NoName
                   => instancesById'[nodeName[objectRegistry[idm]]] = i

\* C21: attachFromRealm does not raise on an element whose idm names no
\* registered node and leaves that element in the markup; a scan of such
\* elements only creates no instance and changes no registry, and in a scan
\* that also has elements naming registered nodes each of those nodes gets
\* its instance, live and registered under the node's name.
C21_MissingNodeSkipped == [][C21_Step]_vars

\* a scan that left an element without a node in place and bound another
C21_Witness ==
  /\ lastCall.op = "attachFromRealm"
  /\ \E el \in lastCall.kept : el.idm # NoName
  /\ lastCall.created # {}
  /\ \A i \in lastCall.created : i \in Range(allLoadedElements)

(***************************************************************************)
(* Properties without a document.                                          *)
(***************************************************************************)
\* C22: without a document no operation raises, the live set stays empty
\* and instancesById stays empty.
C22_HeadlessNoOp ==
  ~hasDocument =>
    /\ ~lastCall.threw
    /\ allLoadedElements = <<>>
    /\ \A k \in Names : instancesById[k] = Null

(***************************************************************************)
(* Properties of construction and cloning.                                 *)
(***************************************************************************)
\* What a step does to the scale multipliers.
C23_Step ==
  /\ \A i \in Instances : scaleMultiplier'[i] = scaleMultiplier[i]
  /\ lastCall'.op = "new" =>
       scaleMultiplier'[Len(object) + 1] =
         IF lastCall'.opts.scaleMultiplier.kind = "undefined"
           THEN defaultScaleMultiplier
           ELSE lastCall'.opts.scaleMultiplier.v

\* C23: an instance constructed without a scaleMultiplier gets the value
\* Sorcherer.defaultScaleMultiplier has at that moment, one constructed
\* with a value gets that value, and no step, an assignment to
\* Sorcherer.defaultScaleMultiplier included, changes the scaleMultiplier
\* of an existing instance.
C23_DefaultSnapshotted == [][C23_Step]_vars

\* the default has been changed and an instance constructed under the
\* earlier default keeps the earlier value
C23_Witness ==
  /\ lastCall.op = "setDefaultScaleMultiplier"
  /\ defaultScaleMultiplier = 2
  /\ \E i \in Instances : ~simulate3D[i] /\ scaleMultiplier[i] = 1

\* this.template as a caller reads it, from the fields of one instance.
TemplateSeen(names, values, deleted, field) ==
  IF TemplateName \in names THEN Get(values, TemplateName)
  ELSE IF deleted THEN Undefined
  ELSE field

\* What attachClone returns and what it leaves alone.
C24_Step ==
  lastCall'.op = "attachClone" =>
    LET src == lastCall'.inst
        c == Len(object) + 1
    IN /\ ~lastCall'.threw
       /\ Len(object') = c
       /\ ~disposed'[c]
       /\ object'[c] = lastCall'.node
       /\ simulate3D'[c] = simulate3D[src]
       /\ simulateRotation'[c] = simulateRotation[src]
       /\ autoCenter'[c] = autoCenter[src]
       /\ scaleMultiplier'[c] = scaleMultiplier[src]
       /\ offset'[c] = offset[src]
       /\ TemplateSeen(dynamicVarNames'[c], dynamicVars'[c], templateDeleted'[c],
                        template'[c])
            = TemplateSeen(dynamicVarNames[src], dynamicVars[src], templateDeleted[src],
                           template[src])
       /\ \A key \in DOMAIN dynamicVars[src] :
            Get(dynamicVars'[c], key) = dynamicVars[src][key]
       /\ \A i \in Instances :
            /\ template'[i] = template[i]
            /\ templateDeleted'[i] = templateDeleted[i]
            /\ dynamicVars'[i] = dynamicVars[i]
            /\ dynamicVarNames'[i] = dynamicVarNames[i]
            /\ innerHTML'[i] = innerHTML[i]
            /\ display'[i] = display[i]
            /\ object'[i] = object[i]
            /\ disposed'[i] = disposed[i]
            /\ offset'[i] = offset[i]
            /\ simulate3D'[i] = simulate3D[i]
       /\ lastCall'.name = NoName =>
            (nodeName' = nodeName /\ instancesById' = instancesById)

\* A set operation on one instance leaves every other instance as it was.
C24_Independent ==
  lastCall'.op = "setDynamicVar" =>
    \A i \in Instances \ {lastCall'.inst} :
      /\ dynamicVars'[i] = dynamicVars[i]
      /\ innerHTML'[i] = innerHTML[i]
      /\ template'[i] = template[i]

\* C24: attachClone(target, newName) constructs one new instance, not
\* disposed, bound to target, with the flags, scale multiplier, offset and
\* template of the source and the source's value under every key of the
\* source's variable map; it leaves the source as it was, and without a
\* newName also the target's name and instancesById; a later setDynamicVar
\* on one instance changes no other.
C24_CloneCopies == [][C24_Step /\ C24_Independent]_vars

(***************************************************************************)
(* Properties of bootstrap.                                                *)
(***************************************************************************)
\* The scene, options and markup of a bootstrap call cannot be read off the
\* state after it; the property is stated for each call that can be made.
C25_Call(scene, options, els) ==
  LET S == bootstrap(State, scene, 1, 1, options, els)
      named == {n \in Range(scene) : nodeName[n] # NoName}
      new == (Len(object) + 1)..Len(S.object)
  IN /\ ~S.threw
     /\ S.autoUpdateRunning
     /\ ~autoUpdateRunning =>
          Len(S.rafQueue) + Cardinality(S.timers)
            = Len(rafQueue) + Cardinality(timers) + 1
     /\ IF options.autoRegister
          THEN \A n \in named : S.objectRegistry[nodeName[n]] \in named
          ELSE S.objectRegistry = objectRegistry
     /\ IF options.autoAttach
          THEN \A k \in 1..Len(els) :
                 (els[k].idm # NoName /\ S.objectRegistry[els[k].idm] # Null) =>
                   /\ els[k] \notin S.kept
                   /\ S.instancesById[els[k].idm] \in new
                   /\ S.object[S.instancesById[els[k].idm]] = S.objectRegistry[els[k].idm]
          ELSE /\ Len(S.object) = Len(object)
               /\ S.instancesById = instancesById
               /\ S.kept = Range(els)

\* C25: bootstrap with a camera and a renderer registers, then attaches,
\* then starts: with autoRegister every named node of the scene has its
\* name in objectRegistry, with autoAttach every markup element whose idm is
\* then registered (the names of the scene included) gets an instance in the
\* same call, and on return the loop is running, started by this call if it
\* was not running; without autoRegister objectRegistry is unchanged, and
\* without autoAttach no instance is created and the markup is left alone.
C25_BootstrapOrder ==
  \A scene \in Scenes, options \in OptionSets, el \in Elements :
    C25_Call(scene, options, <<el>>)

\* a bootstrap on an empty registry that bound a markup element to a node
\* of the scene and started the loop
C25_Witness ==
  /\ lastCall.op = "bootstrap"
  /\ \E idm \in lastCall.idms :
       /\ idm \notin lastCall.before
       /\ instancesById[idm] \in lastCall.created
       /\ object[instancesById[idm]] = objectRegistry[idm]
  /\ ~lastCall.wasRunning
  /\ autoUpdateRunning

(***************************************************************************)
(* Properties of the per-frame update.                                     *)
(***************************************************************************)
\* bufferInstance has just shown instance i at its node's position.
Shown(i) ==
  /\ lastCall.op = "bufferInstance" /\ lastCall.inst = i
  /\ ~lastCall.threw /\ ~lastCall.onDisposed
  /\ lastCall.renderer \in Renderers
  /\ nodeVisible[object[i]] /\ viewport.w # 0 /\ viewport.h # 0

\* The distances the scale is compared over; 0 stands for every distance
\* that is replaced by 0.0001.
Distances == {0, 1, 5, 10, 50, 100}

\* The fraction p is at least the fraction q, for positive denominators.
AtLeast(p, q) == p[1] * q[2] >= q[1] * p[2]

\* C26: the scale a shown overlay with simulate3D has is
\* max(0.1, scaleMultiplier * 5 / distance), distance 0.0001 when the
\* computed one is not positive; it is never below 0.1, whatever the
\* multiplier; for a fixed multiplier it does not increase with the
\* distance; and it is 0.5 for multiplier 1 at distance 10.
C26_ScaleFloorMonotone ==
  /\ \A i \in Instances : (Shown(i) /\ simulate3D[i]) =>
       LET k == IF autoCenter[i] THEN 7 ELSE 4
           m == scaleMultiplier[i]
           d == nodeDist[object[i]] + offset[i][3]
           \* the distance in units of 0.0001
           eff == IF d <= 0 THEN 1 ELSE 10000 * d
           scale == <<transform[i][k + 1], transform[i][k + 2]>>
       IN /\ transform[i][k] = "scale"
          /\ scale[2] > 0
          /\ AtLeast(scale, <<1, 10>>)
          /\ IF 10 * 50000 * m >= eff
               THEN scale[1] * eff = 50000 * m * scale[2]
               ELSE scale = <<1, 10>>
          /\ \A nearer \in Distances : nearer <= d => AtLeast(scaleOf(m, nearer), scale)
          /\ \A farther \in Distances : farther >= d => AtLeast(scale, scaleOf(m, farther))
  /\ \A m \in Multipliers : \A d1 \in Distances, d2 \in Distances :
       d1 <= d2 => AtLeast(scaleOf(m, d1), scaleOf(m, d2))
  /\ scaleOf(1, 10) = <<1, 2>>

\* an overlay shown at the floor of the scale, and one above it
C26_Witness ==
  \E i \in Instances :
    /\ Shown(i) /\ simulate3D[i] /\ ~autoCenter[i]
    /\ scaleMultiplier[i] = 1
    /\ nodeDist[object[i]] = 10
    /\ transform[i][5] = 1 /\ transform[i][6] = 2

\* C27: a shown overlay is translated to x = (ndc.x + 1) * width / 2,
\* y = (1 - ndc.y) * height / 2; a projected point with both coordinates in
\* [-1, 1] lands in [0, width] x [0, height], ndc.x = -1 and +1 give x = 0
\* and width, ndc.y = +1 and -1 give y = 0 and height, and (0, 0) on
\* 800x600 gives (400, 300).
C27_PixelMapping ==
  \A i \in Instances : Shown(i) =>
    LET ndc == [x |-> nodeNdc[object[i]].x + offset[i][1],
                y |-> nodeNdc[object[i]].y + offset[i][2]]
        x == transform[i][2]
        y == transform[i][3]
    IN /\ transform[i][1] = "translate"
       /\ 2 * x = (ndc.x + 1) * viewport.w
       /\ 2 * y = (1 - ndc.y) * viewport.h
       /\ (ndc.x \in -1..1 /\ ndc.y \in -1..1) =>
            (x \in 0..viewport.w /\ y \in 0..viewport.h)
       /\ ndc.x = -1 => x = 0
       /\ ndc.x = 1 => x = viewport.w
       /\ ndc.y = 1 => y = 0
       /\ ndc.y = -1 => y = viewport.h
       /\ (ndc.x = 0 /\ ndc.y = 0 /\ viewport = [w |-> 800, h |-> 600]) =>
            (x = 400 /\ y = 300)

\* an overlay shown at the top left corner of the canvas
C27_Witness ==
  \E i \in Instances :
    /\ Shown(i)
    /\ nodeNdc[object[i]] = [x |-> -1, y |-> 1] /\ offset[i] = ZeroOffset
    /\ transform[i][2] = 0 /\ transform[i][3] = 0

\* C31: the distance a per-frame update divides by is positive: one that
\* is not finite or not positive is replaced by 0.0001, which gives the
\* z-index 10000000; for the other distances the z-index of a shown overlay
\* is round(1000 / distance) of the distance of this update, it does not
\* increase with the distance, and it is 200 at distance 5.
C31_ZIndexFromDistance ==
  /\ \A i \in Instances : Shown(i) =>
       LET d == nodeDist[object[i]] + offset[i][3]
           z == zIndex[i][1]
       IN /\ Len(zIndex[i]) = 1
          /\ z \in Nat
          /\ d <= 0 => z = 10000000
          \* z - 1/2 <= 1000 / d < z + 1/2
          /\ d > 0 => /\ (2 * z - 1) * d <= 2000
                      /\ 2000 < (2 * z + 1) * d
          /\ \A nearer \in Distances : nearer <= d => zIndexOf(nearer) >= z
          /\ \A farther \in Distances : farther >= d => z >= zIndexOf(farther)
  /\ \A d1 \in Distances, d2 \in Distances : d1 <= d2 => zIndexOf(d1) >= zIndexOf(d2)
  /\ zIndexOf(5) = 200

\* an overlay shown at a distance that was replaced by 0.0001, after it had
\* been shown before
C31_Witness ==
  \E i \in Instances :
    /\ Shown(i)
    /\ nodeDist[object[i]] + offset[i][3] <= 0
    /\ zIndex[i] = <<10000000>>

\* C32: the transform of a shown overlay is the translation to (x, y), then
\* translate(-50%, -50%) iff autoCenter, then a scale iff simulate3D, then a
\* rotation by rotation.z * 180 / pi degrees iff simulateRotation, and
\* nothing else: it is built from the flags and inputs of this update, so
\* no part of an earlier update remains once its flag is switched off.
C32_TransformOfThisFrame ==
  \A i \in Instances : Shown(i) =>
    LET t == transform[i]
        c == IF autoCenter[i] THEN 3 ELSE 0
        s == IF simulate3D[i] THEN 3 ELSE 0
        r == IF simulateRotation[i] THEN 2 ELSE 0
        ndc == [x |-> nodeNdc[object[i]].x + offset[i][1],
                y |-> nodeNdc[object[i]].y + offset[i][2]]
    IN /\ Len(t) = 3 + c + s + r
       /\ t[1] = "translate"
       /\ 2 * t[2] = (ndc.x + 1) * viewport.w
       /\ 2 * t[3] = (1 - ndc.y) * viewport.h
       /\ autoCenter[i] => (t[4] = "translate%" /\ t[5] = -50 /\ t[6] = -50)
       /\ simulate3D[i] => t[4 + c] = "scale"
       /\ simulateRotation[i] =>
            (t[4 + c + s] = "rotate" /\ t[5 + c + s] = 90 * nodeRotation[object[i]])

\* an overlay that was rotated, centred and scaled, updated with all three
\* switched off
C32_Witness ==
  \E i \in Instances :
    /\ Shown(i) /\ lastCall.wasRotated
    /\ ~simulateRotation[i] /\ ~simulate3D[i] /\ ~autoCenter[i]
    /\ Len(transform[i]) = 3

\* What bufferInstance does when the update cannot be done.
C28_Step ==
  LET i == lastCall'.inst IN
  (/\ lastCall'.op = "bufferInstance"
   /\ \/ object[i] = Null
      \/ lastCall'.renderer = NoCanvas
      \/ ~nodeVisible[object[i]]
      \/ viewport.w = 0
      \/ viewport.h = 0
      \/ nodeMalformed[object[i]])
    => /\ ~lastCall'.threw
       /\ display'[i] = "none"
       /\ transform'[i] = transform[i]
       /\ zIndex'[i] = zIndex[i]

\* C28: when the target node is missing or invisible, the viewport has no
\* width or no height or is unavailable, or the node has no usable world
\* transform, bufferInstance does not raise, sets display to none and
\* leaves transform and z-index as they were.
C28_HiddenWhenImpossible == [][C28_Step]_vars

\* What a pass does to the registries and to the overlays without a target.
C29_Step ==
  lastCall'.op = "bufferAll" =>
    /\ allLoadedElements' = allLoadedElements
    /\ instancesById' = instancesById
    /\ objectRegistry' = objectRegistry
    /\ \A i \in Range(allLoadedElements) :
         (object[i] = Null /\ lastCall'.node # Null /\ ~lastCall'.threw) =>
           /\ display'[i] = "none"
           /\ i \in Range(allLoadedElements')
           /\ ~disposed'[i]

\* C29: bufferAll adds nothing to and removes nothing from
\* allLoadedElements and instancesById and leaves objectRegistry alone; a
\* live instance whose target is gone is hidden by the pass and stays in
\* the live set.
C29_PassKeepsRegistries == [][C29_Step]_vars

\* a pass has hidden a shown overlay whose target is gone, and kept it
C29_Witness ==
  /\ lastCall.op = "bufferAll" /\ lastCall.node # Null /\ ~lastCall.threw
  /\ \E i \in Range(allLoadedElements) :
       /\ object[i] = Null /\ display[i] = "none" /\ transform[i] # NoStyle

(***************************************************************************)
(* Properties of the timer driver.                                         *)
(***************************************************************************)
\* At most one timer is pending, and only while the flag is set.
C30_OneTimer ==
  /\ Cardinality(timers) <= 1
  /\ timers # {} => autoUpdateRunning

\* C30: under the timer driver at most one timer is pending at any time and
\* only while autoUpdateRunning is set, and stopAutoSetup() leaves no timer
\* pending, also when stopAutoSetup(), or stopAutoSetup() and then
\* autoSetup(), is called from within a pass.
C30_TimerWhileRunning ==
  []C30_OneTimer /\ [][lastCall'.op = "stopAutoSetup" => timers' = {}]_vars

\* What a pass visits, and against which frustum.
C34_Step ==
  (lastCall'.op = "bufferAll" /\ lastCall'.node # Null) =>
    LET visited == lastCall'.visited IN
    \* every live instance, once
    /\ Range(visited) = Range(allLoadedElements)
    /\ Len(visited) = Cardinality(Range(allLoadedElements))
    \* in the order of construction
    /\ \A j \in 1..Len(visited), k \in 1..Len(visited) : j < k => visited[j] < visited[k]
    \* each against the frustum the pass started with
    /\ nodeInFrustum' = nodeInFrustum
    /\ \A i \in Range(visited) :
         (object[i] # Null /\ ~nodeInFrustum[object[i]]) => display'[i] = "none"

\* C34: a pass visits the live instances in the order in which they were
\* constructed, a function of the constructions and disposals made so far,
\* and visits each live instance exactly once, against the frustum of the
\* start of the pass.
C34_PassOrder == [][C34_Step]_vars

\* C35: whenever autoUpdateRunning is set a loop callback is pending with
\* the driver, so that the driver's next callback runs the loop again; in
\* no reachable state, after a pass that raised for example, is the flag set
\* with nothing pending, where autoSetup() returns at once and cannot
\* restart the loop.
C35_LoopAlive == autoUpdateRunning => Pending >= 1

\* What attach() leaves alone.
C36_Step ==
  \A i \in Instances :
    (lastCall'.op = "attach" /\ lastCall'.inst = i) =>
      /\ object'[i] = object[i]
      /\ offset'[i] = offset[i]
      /\ simulate3D'[i] = simulate3D[i]
      /\ simulateRotation'[i] = simulateRotation[i]
      /\ autoCenter'[i] = autoCenter[i]
      /\ scaleMultiplier'[i] = scaleMultiplier[i]
      /\ disposed'[i] = disposed[i]
      /\ UNCHANGED <<allLoadedElements, instancesById, objectRegistry, nodeListeners>>

\* C36: attach(template) leaves the instance's target node, offset, flags,
\* scale multiplier and disposed flag, and the registries, as they were, for
\* every template, one whose placeholder is named as a field of the
\* instance included, at the first attach and at every later one.
C36_AttachFrame == [][C36_Step]_vars

\* What dispose() of an instance that does not hold its node's name leaves.
C37_Step ==
  \A i \in Instances, h \in Instances :
    (/\ lastCall'.op = "dispose" /\ lastCall'.inst = i
     /\ ~disposed[i] /\ object[i] # Null /\ nodeName[object[i]] # NoName
     /\ instancesById[nodeName[object[i]]] = h /\ h # i)
      => /\ instancesById' = instancesById
         /\ disposed'[h] = disposed[h]
         /\ object'[h] = object[h]
         /\ h \in Live => h \in Range(allLoadedElements')

\* C37: dispose() of an instance whose node's name is held in instancesById
\* by another instance leaves instancesById as it is, and the holder as
\* reachable by the name and as live as it was.
C37_HolderSurvives == [][C37_Step]_vars

\* an instance that did not hold its node's name has been disposed, and the
\* holder of the name is live and registered
C37_Witness ==
  /\ lastCall.op = "dispose" /\ ~lastCall.onDisposed
  /\ disposed[lastCall.inst]
  /\ \E h \in Live \ {lastCall.inst} :
       /\ ~disposed[h] /\ object[h] = 1
       /\ nodeName[1] # NoName
       /\ instancesById[nodeName[1]] = h

\* C38: for every key k of instancesById the instance stored is not
\* disposed, is in allLoadedElements, and is bound to a node whose name is
\* k, after any sequence of attachFromRealm, attachClone and dispose.
C38_IdMapConsistent ==
  \A k \in Names :
    instancesById[k] # Null =>
      LET i == instancesById[k] IN
      /\ ~disposed[i]
      /\ i \in Live
      /\ object[i] # Null
      /\ nodeName[object[i]] = k

(***************************************************************************)
(* Properties of rendering.                                                *)
(***************************************************************************)
\* What a render of an attached overlay does.
C33_Step ==
  \A i \in Instances :
    (lastCall'.inst = i /\ attached[i] # <<>>
       /\ lastCall'.op \in {"renderDynamicVars", "setDynamicVar"}) =>
      /\ ~lastCall'.threw
      \* one pass over the attached text, with the values as they are
      /\ innerHTML'[i] = ReplaceFrom(attached[i], 1, dynamicVars'[i])
      /\ (attached[i] = PlainTpl
            /\ Get(dynamicVars'[i], <<"a">>) = <<Dollar, "b", Dollar>>
            /\ Get(dynamicVars'[i], <<"b">>) = <<"9">>)
           => innerHTML'[i] = <<"<", "9", Dollar, "b", Dollar>>
      \* the template is the attached text, placeholders included
      /\ TemplateSeen(dynamicVarNames'[i], dynamicVars'[i], templateDeleted'[i],
                      template'[i]) = attached[i]
      /\ lastCall'.op = "renderDynamicVars" =>
           /\ template'[i] = template[i]
           /\ dynamicVars'[i] = dynamicVars[i]
           /\ dynamicVarNames'[i] = dynamicVarNames[i]

\* Rendering twice gives what rendering once gives.
C33_Idempotent ==
  \A i \in Instances :
    renderDynamicVars(renderDynamicVars(State, i), i) = renderDynamicVars(State, i)

\* C33: rendering is one substitution pass over the stored template: a
\* value that contains placeholder text is inserted as it is and not
\* expanded again, the stored template keeps its placeholders, rendering
\* changes neither the template nor the values, and rendering twice gives
\* the content rendering once gives.
C33_SinglePass == []C33_Idempotent /\ [][C33_Step]_vars

====
